---- MODULE Spec2Model ----
(***************************************************************************)
(* A model of the spark staking indexer (KaoImin/spark):                   *)
(*   - common/src/types/delta.rs     Delta, DelegateDelta, DelegateDeltas  *)
(*   - tx-builder/src/ckb/stake_smt.rs   the stake aggregation builder     *)
(*   - sync/src/lib.rs, storage/src/kvdb.rs, storage/src/relation_db       *)
(*                                   the chain synchroniser and its stores *)
(*   - api/src/jsonrpc/operation.rs  the stake and unstake RPC             *)
(* The specifications of the module: SpecDelta (the pure codec and         *)
(* arithmetic of delta.rs), SpecAgg (one run of StakeSmtTxBuilder), Spec   *)
(* (the synchroniser with handler failures, crashes and restarts),         *)
(* SpecLive (the synchroniser without them, with fairness), SpecClassify   *)
(* (parse_block's choice of branch), SpecDb (RelationDB) and SpecRace (the *)
(* RPC server beside the sync task).                                       *)
(***************************************************************************)
EXTENDS Integers, Sequences, FiniteSets, TLC

VARIABLES
    \* ---- delta.rs: the input drawn and the result of the applied function
    dl_in, dl_out,
    \* ---- stake_smt.rs: the fields of StakeSmtTxBuilder and its collaborators
    quorum,             \* self.quorum
    stake_cells,        \* self.stake_cells, the candidate batch
    smt_leaves,         \* stake_smt_storage: the leaves of epoch current_epoch + INAUGURATION
    \* ---- stake_smt.rs: the locals of build_tx / collect / fill_tx
    bpc,                \* the position of build_tx
    cell_idx,           \* the next candidate of the fold loop
    old_smt, new_smt, withdraw_amounts, inputs_stake_cells, non_top_stakers,
    tx,                 \* inputs, outputs and witnesses assembled so far
    build_result,       \* what build_tx returned
    \* ---- the base chain, as the RPC client shows it
    chain,              \* the blocks fetched so far; block n is chain[n + 1]
    \* ---- the durable stores
    history,            \* RelationDB: the rows of transaction_history
    total_amount,       \* RelationDB: address -> row of total_amount
    kv_stake,           \* KVDB column c_stake: key -> bytes
    kv_delegate,        \* KVDB column c_delegate: key -> bytes
    stake_smt,          \* SmtManager: epoch -> (staker -> amount)
    delegate_smt,       \* SmtManager: epoch -> (<<staker, delegator>> -> amount)
    reward_smt,         \* SmtManager: epoch -> (user -> amount)
    \* ---- the process: Synchronization and the locals of its handlers
    current_number,     \* self.current_number
    current_epoch,      \* the AtomicU64 shared with the RPC server
    pc,                 \* the position of the sync task
    tx_idx,             \* the transaction of the block parse_block is at
    item_idx,           \* the delegator_infos entry handle_delegate_tx is at
    delegate_status,    \* the local DelegateDeltas of handle_delegate_tx
    delta_u64,          \* the local delta of the handlers: the amount of the row
    tip,                \* the local tip of run, between its read and its use
    \* ---- bookkeeping of the runs, not state of the program
    restarts,           \* how often the process was started again
    smt_applied,        \* tx_hash -> SMT inserts made for the transaction
    kv_applied,         \* tx_hash -> KV writes made for the transaction
    completed,          \* the blocks parse_block has returned Ok for
    resumed,            \* the stores and the block number at the last start
    handed,             \* the blocks handed to parse_block since the last start
    handled,            \* the transactions parse_block took a branch for since then
    \* ---- parse_block on its own: the transaction drawn and the branch taken
    cf_tx, cf_class,
    \* ---- RelationDB on its own: the tables and the call in progress
    db_total,           \* address -> row of total_amount
    db_history,         \* the rows of transaction_history
    db_pc,              \* the position of the call
    db_call,            \* the function called and its arguments
    db_result,          \* what the call returned
    db_rows,            \* the records a query returned
    db_before,          \* bookkeeping: the tables when the call started
    db_calls,           \* bookkeeping: the calls made so far
    \* ---- the RPC server beside the sync task: the shared epoch and the items
    rc_current_epoch,   \* the AtomicU64 the RPC server and the sync task share
    rc_kv_epoch,        \* KVDB: the value under CURRENT_EPOCH_KEY
    rc_pc,              \* the position of the sync task
    rc_items,           \* the stake items the RPC server has built
    rc_folded,          \* bookkeeping: the items folded, with the working epoch
    rc_restarts         \* bookkeeping: how often the process was started again

deltaVars == <<dl_in, dl_out>>

builderVars ==
    <<quorum, stake_cells, smt_leaves, bpc, cell_idx, old_smt, new_smt,
      withdraw_amounts, inputs_stake_cells, non_top_stakers, tx, build_result>>

storeVars ==
    <<history, total_amount, kv_stake, kv_delegate, stake_smt, delegate_smt,
      reward_smt>>

taskVars ==
    <<current_number, current_epoch, pc, tx_idx, item_idx, delegate_status,
      delta_u64, tip>>

classVars == <<cf_tx, cf_class>>

dbVars ==
    <<db_total, db_history, db_pc, db_call, db_result, db_rows, db_before, db_calls>>

raceVars ==
    <<rc_current_epoch, rc_kv_epoch, rc_pc, rc_items, rc_folded, rc_restarts>>

runVars == <<restarts, smt_applied, kv_applied, completed, resumed, handed, handled>>

syncVars == <<chain, storeVars, taskVars, runVars>>

(***************************************************************************)
(* Results.  anyhow::Result is Ok(value) or Err; a slice index out of      *)
(* range or an unwrap of None is a panic.                                  *)
(***************************************************************************)
Ok(v) == [ok |-> TRUE, kind |-> "ok", value |-> v]
Err == [ok |-> FALSE, kind |-> "err"]
Panic == [ok |-> FALSE, kind |-> "panic"]

(***************************************************************************)
(* Bytes.  u128::to_le_bytes / u32::to_le_bytes and from_le_bytes, with    *)
(* the widths of the source (16 and 4 bytes).                              *)
(***************************************************************************)
RECURSIVE ToLeBytes(_, _)
ToLeBytes(v, n) ==
    IF n = 0 THEN <<>> ELSE <<v % 256>> \o ToLeBytes(v \div 256, n - 1)

RECURSIVE FromLeBytes(_)
FromLeBytes(bytes) ==
    IF bytes = <<>> THEN 0 ELSE bytes[1] + 256 * FromLeBytes(Tail(bytes))

\* &raw[from..to] of Rust (from inclusive, to exclusive, 0-based)
Slice(raw, from, to) == SubSeq(raw, from + 1, to)

(***************************************************************************)
(* Delta (delta.rs:86-156)                                                 *)
(***************************************************************************)
Delta(inc, amt) == [is_increase |-> inc, amount |-> amt]

DeltaDefault == Delta(FALSE, 0)

\* the signed view of the specification: +amount if increase, -amount otherwise
Signed(d) == IF d.is_increase THEN d.amount ELSE 0 - d.amount

DeltaEncodeFlagInverted(d) ==
    <<IF d.is_increase THEN 1 ELSE 0>> \o ToLeBytes(d.amount, 16)

DeltaEncode(d) ==
    <<IF d.is_increase THEN 0 ELSE 1>> \o ToLeBytes(d.amount, 16)

DeltaDecode(raw) ==
    IF Len(raw) # 17
    THEN Err
    ELSE Ok(Delta(raw[1] = 0, FromLeBytes(Slice(raw, 1, 17))))

DeltaSub(self, other) ==
    IF self.is_increase = other.is_increase
    THEN Delta(self.is_increase, self.amount + other.amount)
    ELSE IF self.is_increase /\ self.amount > other.amount
    THEN Delta(TRUE, self.amount - other.amount)
    ELSE IF self.is_increase /\ self.amount < other.amount
    THEN Delta(FALSE, other.amount - self.amount)
    ELSE IF ~self.is_increase /\ self.amount > other.amount
    THEN Delta(FALSE, self.amount - other.amount)
    ELSE Delta(TRUE, other.amount - self.amount)

(***************************************************************************)
(* H160 addresses are 20 bytes; the BTreeMap of DelegateDeltas orders its  *)
(* keys by the derived Ord of the byte array, i.e. lexicographically.      *)
(***************************************************************************)
RECURSIVE Zeros(_)
Zeros(n) == IF n = 0 THEN <<>> ELSE <<0>> \o Zeros(n - 1)

\* three addresses whose order is decided by the first, a middle and the last byte
H160s ==
    { Zeros(19) \o <<7>>,
      Zeros(10) \o <<1>> \o Zeros(9),
      <<2>> \o Zeros(19) }

RECURSIVE BytesLess(_, _)
BytesLess(a, b) ==
    IF a = <<>> \/ b = <<>> THEN a = <<>> /\ b # <<>>
    ELSE IF a[1] # b[1] THEN a[1] < b[1]
    ELSE BytesLess(Tail(a), Tail(b))

\* the keys of a BTreeMap in iteration order
RECURSIVE KeysAscending(_)
KeysAscending(keys) ==
    IF keys = {} THEN <<>>
    ELSE LET least == CHOOSE k \in keys : \A o \in keys \ {k} : BytesLess(k, o)
         IN <<least>> \o KeysAscending(keys \ {least})

RECURSIVE KeysDescending(_)
KeysDescending(keys) ==
    IF keys = {} THEN <<>>
    ELSE LET most == CHOOSE k \in keys : \A o \in keys \ {k} : BytesLess(o, k)
         IN <<most>> \o KeysDescending(keys \ {most})

BTreeIter(keys) == KeysAscending(keys)

(***************************************************************************)
(* DelegateDelta (delta.rs:45-84) and DelegateDeltas (delta.rs:12-43).     *)
(* DelegateDeltas.inner is a function from a set of H160 to DelegateDelta. *)
(***************************************************************************)
DelegateDelta(staker, delta) == [staker |-> staker, delta |-> delta]

DelegateDeltaEncode(dd) == dd.staker \o DeltaEncode(dd.delta)

DelegateDeltaDecode(raw) ==
    IF Len(raw) < 37 THEN Panic
    ELSE LET delta == DeltaDecode(Slice(raw, 20, 37))
         IN IF delta.ok
            THEN Ok(DelegateDelta(Slice(raw, 0, 20), delta.value))
            ELSE Err

RECURSIVE EncodeEntries(_, _)
EncodeEntries(inner, order) ==
    IF order = <<>> THEN <<>>
    ELSE DelegateDeltaEncode(inner[Head(order)]) \o EncodeEntries(inner, Tail(order))

DelegateDeltasEncode(inner) ==
    ToLeBytes(Cardinality(DOMAIN inner), 4)
        \o EncodeEntries(inner, BTreeIter(DOMAIN inner))

EmptyMap == [k \in {} |-> 0]

\* inner.insert(key, value) of a map
MapInsert(m, k, v) == [x \in DOMAIN m \cup {k} |-> IF x = k THEN v ELSE m[x]]

\* the loop `for i in 0..len` of decode, from iteration i with the map built so far
RECURSIVE DecodeEntries(_, _, _, _)
DecodeEntries(raw, len, i, inner) ==
    IF i >= len THEN Ok(inner)
    ELSE LET offset == 4 + i * (20 + 17)
         IN IF Len(raw) < offset + 37 THEN Panic
            ELSE LET delta == DelegateDeltaDecode(Slice(raw, offset, offset + 37))
                 IN IF ~delta.ok THEN delta
                    ELSE DecodeEntries(raw, len, i + 1,
                             MapInsert(inner, delta.value.staker, delta.value))

DelegateDeltasDecode(raw) ==
    IF Len(raw) < 4 THEN Panic
    ELSE DecodeEntries(raw, FromLeBytes(Slice(raw, 0, 4)), 0, EmptyMap)

(***************************************************************************)
(* SpecDelta: Init draws one input, the actions apply the functions.       *)
(***************************************************************************)
\* amounts for Delta::sub stay below MaxSubAmount, so that no sum overflows
MaxSubAmount == 4

\* amounts that exercise one, two, three and four bytes of the 16
CodecAmounts == {0, 1, 255, 256, 65535, 65536, 16777216, 2147483647}

SubDeltas == {Delta(inc, amt) : inc \in BOOLEAN, amt \in 0..MaxSubAmount}

CodecDeltas == {Delta(inc, amt) : inc \in BOOLEAN, amt \in CodecAmounts}

\* the deltas stored in a DelegateDeltas map of the model
MapDeltas == {Delta(TRUE, 0), Delta(TRUE, 300), Delta(FALSE, 70000)}

\* the maps the program builds: every entry is stored under its own staker
\* (sync/src/lib.rs:199 and DelegateDeltas::decode)
DelegateDeltasMaps ==
    UNION { [keys -> MapDeltas] : keys \in SUBSET H160s }

WellFormed(m) == [k \in DOMAIN m |-> DelegateDelta(k, m[k])]

\* raw inputs of Delta::decode: encodings, every shorter prefix of one, one byte
\* more, and 17 bytes with a direction byte other than 0 and 1
RawDeltas ==
    LET e == DeltaEncode(Delta(FALSE, 65536))
    IN { DeltaEncode(d) : d \in CodecDeltas }
         \cup { SubSeq(e, 1, n) : n \in 0..16 }
         \cup { e \o <<0>>, e \o <<0, 0>>, <<2>> \o Tail(e), <<255>> \o Tail(e) }

DeltaInputs ==
    { [kind |-> "pair", a |-> a, b |-> b] : a \in SubDeltas, b \in SubDeltas }
      \cup { [kind |-> "delta", d |-> d] : d \in CodecDeltas }
      \cup { [kind |-> "raw", raw |-> r] : r \in RawDeltas }
      \cup { [kind |-> "map", inner |-> WellFormed(m)] : m \in DelegateDeltasMaps }

NoOutput == [op |-> "none"]

DeltaInit ==
    /\ dl_in \in DeltaInputs
    /\ dl_out = NoOutput

ApplySub ==
    /\ dl_out = NoOutput
    /\ dl_in.kind = "pair"
    /\ dl_out' = [op |-> "sub", out |-> DeltaSub(dl_in.a, dl_in.b)]
    /\ UNCHANGED dl_in

ApplyDeltaCodec ==
    /\ dl_out = NoOutput
    /\ dl_in.kind = "delta"
    /\ dl_out' = [op |-> "delta_codec",
                  encoded |-> DeltaEncode(dl_in.d),
                  decoded |-> DeltaDecode(DeltaEncode(dl_in.d))]
    /\ UNCHANGED dl_in

ApplyDeltaDecode ==
    /\ dl_out = NoOutput
    /\ dl_in.kind = "raw"
    /\ dl_out' = [op |-> "delta_decode", decoded |-> DeltaDecode(dl_in.raw)]
    /\ UNCHANGED dl_in

ApplyDelegateDeltasCodec ==
    /\ dl_out = NoOutput
    /\ dl_in.kind = "map"
    /\ dl_out' = [op |-> "map_codec",
                  encoded |-> DelegateDeltasEncode(dl_in.inner),
                  decoded |-> DelegateDeltasDecode(DelegateDeltasEncode(dl_in.inner))]
    /\ UNCHANGED dl_in

\* delta.rs at rest, in the specifications of the other components
DeltaIdle ==
    /\ dl_in = [kind |-> "none"]
    /\ dl_out = NoOutput

(***************************************************************************)
(* StakeSmtTxBuilder (tx-builder/src/ckb/stake_smt.rs).                    *)
(*                                                                         *)
(* A HashMap is a function from its key set.  A cell is a record           *)
(*   [out_point, staker, total, is_increase, amount, inauguration_epoch]   *)
(* holding what the builder reads of it: the staker of the lock args, the  *)
(* u128 total of the first 16 data bytes and the delta of the stake data.  *)
(***************************************************************************)
INAUGURATION == 2

Stakers == {1, 2, 3, 4, 5}

\* the epoch the builder is constructed with
BuilderEpoch == 10

RemoveKey(m, k) == [x \in DOMAIN m \ {k} |-> m[x]]

Cell(out_point, staker, total, inc, amt, inauguration) ==
    [out_point |-> out_point, staker |-> staker, total |-> total,
     is_increase |-> inc, amount |-> amt, inauguration_epoch |-> inauguration]

\* Stake::get_cell: the live stake AT cell of a staker of the SMT; its total is
\* the on-chain amount, which the leaf of the SMT equals, and its delta is empty
LiveStakeCell(staker, leaf) ==
    Cell(<<"live", staker>>, staker, leaf, FALSE, 0, 0)

\* Withdraw::get_cell: the amount held by the staker's current withdraw AT cell
OldWithdrawAmount(staker) == staker % 2

(***************************************************************************)
(* StakeSmtStorage, the contract of section 4.A: insert adds (is_increase) *)
(* or subtracts the amount at each leaf.                                   *)
(***************************************************************************)
LeafOf(leaves, user) == IF user \in DOMAIN leaves THEN leaves[user] ELSE 0

\* insert(epoch, amounts) with every amount an increase: amounts is a function
\* from the users to the amounts added
SmtInsertIncreases(leaves, amounts) ==
    [u \in DOMAIN leaves \cup DOMAIN amounts |->
        LeafOf(leaves, u) + LeafOf(amounts, u)]

(***************************************************************************)
(* collect, the fold over the candidates (stake_smt.rs:290-323).  The      *)
(* state of the loop is [new_smt, withdraw_amounts, inputs_stake_cells,    *)
(* error].                                                                 *)
(***************************************************************************)
IsStale(cell, epoch) ==
    cell.inauguration_epoch < epoch + INAUGURATION

\* the decrease branch with a wrapping subtraction instead of the comparison
FoldDecreaseWrapping(st, staker, origin, amount) ==
    [st EXCEPT
        !.new_smt = MapInsert(st.new_smt, staker, origin - amount),
        !.withdraw_amounts = MapInsert(st.withdraw_amounts, staker, amount)]

\* stake_smt.rs:311-316
FoldDecrease(st, staker, origin, amount) ==
    IF origin < amount
    THEN [st EXCEPT
            !.withdraw_amounts = MapInsert(st.withdraw_amounts, staker, origin)]
    ELSE [st EXCEPT
            !.new_smt = MapInsert(st.new_smt, staker, origin - amount),
            !.withdraw_amounts = MapInsert(st.withdraw_amounts, staker, amount)]

\* the fold without the check of stake_smt.rs:318-320: a new entrant's delta is
\* taken whatever its direction
FoldCellAnyDirection(st, cell, epoch) ==
    IF IsStale(cell, epoch) THEN st
    ELSE
      LET staker == cell.staker
          st1 == [st EXCEPT !.inputs_stake_cells =
                               MapInsert(st.inputs_stake_cells, staker, cell)]
      IN IF staker \in DOMAIN st1.new_smt
         THEN LET origin == st1.new_smt[staker]
              IN IF cell.is_increase
                 THEN [st1 EXCEPT !.new_smt =
                          MapInsert(st1.new_smt, staker, origin + cell.amount)]
                 ELSE FoldDecrease(st1, staker, origin, cell.amount)
         ELSE [st1 EXCEPT !.new_smt =
                  MapInsert(st1.new_smt, staker, cell.amount)]

\* the fold keeping the first cell of a staker instead of the last
\* (inputs_stake_cells written only when the staker has no cell yet)
FoldCellKeepsFirst(st, cell, epoch) ==
    IF IsStale(cell, epoch) THEN st
    ELSE
      LET staker == cell.staker
          st1 == IF staker \in DOMAIN st.inputs_stake_cells THEN st
                 ELSE [st EXCEPT !.inputs_stake_cells =
                               MapInsert(st.inputs_stake_cells, staker, cell)]
      IN IF staker \in DOMAIN st1.new_smt
         THEN LET origin == st1.new_smt[staker]
              IN IF cell.is_increase
                 THEN [st1 EXCEPT !.new_smt =
                          MapInsert(st1.new_smt, staker, origin + cell.amount)]
                 ELSE FoldDecrease(st1, staker, origin, cell.amount)
         ELSE IF ~cell.is_increase
              THEN [st1 EXCEPT !.error = TRUE]
              ELSE [st1 EXCEPT !.new_smt =
                       MapInsert(st1.new_smt, staker, cell.amount)]

FoldCell(st, cell, epoch) ==
    IF IsStale(cell, epoch) THEN st
    ELSE
      LET staker == cell.staker
          st1 == [st EXCEPT !.inputs_stake_cells =
                               MapInsert(st.inputs_stake_cells, staker, cell)]
      IN IF staker \in DOMAIN st1.new_smt
         THEN LET origin == st1.new_smt[staker]
              IN IF cell.is_increase
                 THEN [st1 EXCEPT !.new_smt =
                          MapInsert(st1.new_smt, staker, origin + cell.amount)]
                 ELSE FoldDecrease(st1, staker, origin, cell.amount)
         ELSE IF ~cell.is_increase
              THEN [st1 EXCEPT !.error = TRUE]
              ELSE [st1 EXCEPT !.new_smt =
                       MapInsert(st1.new_smt, staker, cell.amount)]

(***************************************************************************)
(* collect_non_top_stakers (stake_smt.rs:391-417).  all_stakes is the      *)
(* HashMap's entries, in its arbitrary iteration order, sorted by          *)
(* sort_unstable_by_key on the amount alone: any order of the stakers in   *)
(* which the amounts do not decrease.                                      *)
(***************************************************************************)
\* the orders in which a HashMap may yield its keys
RECURSIVE OrdersOf(_)
OrdersOf(keys) ==
    IF keys = {} THEN {<<>>}
    ELSE UNION { { <<k>> \o o : o \in OrdersOf(keys \ {k}) } : k \in keys }

SortedDescending(smt) ==
    { o \in OrdersOf(DOMAIN smt) :
        \A i, j \in 1..Len(o) : i < j => smt[o[i]] >= smt[o[j]] }

SortedByAmount(smt) ==
    { o \in OrdersOf(DOMAIN smt) :
        \A i, j \in 1..Len(o) : i < j => smt[o[i]] <= smt[o[j]] }

DeleteCount(smt, q) ==
    IF Cardinality(DOMAIN smt) <= 3 * q THEN 0 ELSE Cardinality(DOMAIN smt) - 3 * q

\* the stakers of &all_stakes[..delete_count]
NonTop(all_stakes, delete_count) == {all_stakes[i] : i \in 1..delete_count}

(***************************************************************************)
(* fill_tx (stake_smt.rs:162-252), for the stakers of inputs_stake_cells   *)
(* in the order the HashMap yields them.  Withdraw::update_cell_data is    *)
(* the helper of section 4.G: the new withdraw cell holds the old amount   *)
(* plus the withdraw amount.                                               *)
(***************************************************************************)
WithdrawUpdateCellData(old_amount, amount) == old_amount + amount

NewTotalKeepsAmount(old_total, withdraw_amount) == old_total

\* stake_smt.rs:205: old_total_stake_amount - withdraw_amount
NewTotalStakeAmount(old_total, withdraw_amount) == old_total - withdraw_amount

\* fill_tx pushing the withdraw-lock witness before the stake-lock witness
FillStakerWitnessesSwapped(t, staker, cell, withdraws) ==
    LET has_withdraw == staker \in DOMAIN withdraws
        w == IF has_withdraw THEN withdraws[staker] ELSE 0
        ins == <<[kind |-> "stake_at", staker |-> staker, amount |-> cell.total,
                  out_point |-> cell.out_point]>>
                 \o (IF has_withdraw
                     THEN <<[kind |-> "withdraw_at", staker |-> staker,
                             amount |-> OldWithdrawAmount(staker),
                             out_point |-> <<"withdraw", staker>>]>>
                     ELSE <<>>)
        wits == (IF has_withdraw THEN <<"withdraw_lock">> ELSE <<>>)
                  \o <<"stake_lock">>
        outs == <<[kind |-> "stake_at", staker |-> staker,
                   amount |-> IF has_withdraw
                              THEN NewTotalStakeAmount(cell.total, w)
                              ELSE cell.total]>>
                  \o (IF has_withdraw
                      THEN <<[kind |-> "withdraw_at", staker |-> staker,
                              amount |-> WithdrawUpdateCellData(
                                             OldWithdrawAmount(staker), w)]>>
                      ELSE <<>>)
    IN [inputs |-> t.inputs \o ins,
        outputs |-> t.outputs \o outs,
        witnesses |-> t.witnesses \o wits]

FillStaker(t, staker, cell, withdraws) ==
    LET has_withdraw == staker \in DOMAIN withdraws
        w == IF has_withdraw THEN withdraws[staker] ELSE 0
        ins == <<[kind |-> "stake_at", staker |-> staker, amount |-> cell.total,
                  out_point |-> cell.out_point]>>
                 \o (IF has_withdraw
                     THEN <<[kind |-> "withdraw_at", staker |-> staker,
                             amount |-> OldWithdrawAmount(staker),
                             out_point |-> <<"withdraw", staker>>]>>
                     ELSE <<>>)
        wits == <<"stake_lock">>
                  \o (IF has_withdraw THEN <<"withdraw_lock">> ELSE <<>>)
        outs == <<[kind |-> "stake_at", staker |-> staker,
                   amount |-> IF has_withdraw
                              THEN NewTotalStakeAmount(cell.total, w)
                              ELSE cell.total]>>
                  \o (IF has_withdraw
                      THEN <<[kind |-> "withdraw_at", staker |-> staker,
                              amount |-> WithdrawUpdateCellData(
                                             OldWithdrawAmount(staker), w)]>>
                      ELSE <<>>)
    IN [inputs |-> t.inputs \o ins,
        outputs |-> t.outputs \o outs,
        witnesses |-> t.witnesses \o wits]

RECURSIVE FillTx(_, _, _, _)
FillTx(t, order, cells, withdraws) ==
    IF order = <<>> THEN t
    ELSE FillTx(FillStaker(t, Head(order), cells[Head(order)], withdraws),
                Tail(order), cells, withdraws)

\* build_tx before fill_tx (stake_smt.rs:75-101): the SMT cell and its witness
TxHead ==
    [inputs |-> <<[kind |-> "smt", staker |-> 0, amount |-> 0,
                   out_point |-> <<"smt", 0>>]>>,
     outputs |-> <<[kind |-> "smt", staker |-> 0, amount |-> 0]>>,
     witnesses |-> <<"smt_witness">>]

NoTx == [inputs |-> <<>>, outputs |-> <<>>, witnesses |-> <<>>]

(***************************************************************************)
(* The builder, step by step.                                              *)
(***************************************************************************)
BuilderLocalsInit ==
    /\ cell_idx = 1
    /\ old_smt = EmptyMap
    /\ new_smt = EmptyMap
    /\ withdraw_amounts = EmptyMap
    /\ inputs_stake_cells = EmptyMap
    /\ non_top_stakers = EmptyMap
    /\ tx = NoTx
    /\ build_result = "none"

\* build_tx fails: the error is returned (or the task panics) and the
\* transaction assembled so far is dropped
Fail(why) ==
    /\ bpc' = "done"
    /\ build_result' = why
    /\ tx' = NoTx

\* stake_smt.rs:72-80 and 279-288: the SMT cell is fetched and the leaves loaded
BuildStart ==
    /\ bpc = "start"
    /\ old_smt' = smt_leaves
    /\ new_smt' = smt_leaves
    /\ tx' = TxHead
    /\ bpc' = "fold"
    /\ UNCHANGED <<quorum, stake_cells, smt_leaves, cell_idx, withdraw_amounts,
                   inputs_stake_cells, non_top_stakers, build_result>>

\* Stake::get_smt_cell or get_sub_leaves fails
BuildStartFails ==
    /\ bpc = "start"
    /\ Fail("rpc_error")
    /\ UNCHANGED <<quorum, stake_cells, smt_leaves, cell_idx, old_smt, new_smt,
                   withdraw_amounts, inputs_stake_cells, non_top_stakers>>

\* one iteration of the loop of stake_smt.rs:290-323
FoldCandidate ==
    /\ bpc = "fold"
    /\ cell_idx <= Len(stake_cells)
    /\ LET st == FoldCell([new_smt |-> new_smt,
                           withdraw_amounts |-> withdraw_amounts,
                           inputs_stake_cells |-> inputs_stake_cells,
                           error |-> FALSE],
                          stake_cells[cell_idx], BuilderEpoch)
       IN /\ new_smt' = st.new_smt
          /\ withdraw_amounts' = st.withdraw_amounts
          /\ inputs_stake_cells' = st.inputs_stake_cells
          /\ IF st.error
             THEN Fail("increase_error")
             ELSE UNCHANGED <<bpc, build_result, tx>>
    /\ cell_idx' = cell_idx + 1
    /\ UNCHANGED <<quorum, stake_cells, smt_leaves, old_smt, non_top_stakers>>

\* stake_smt.rs:325 and 391-417
CollectNonTopStakers ==
    /\ bpc = "fold"
    /\ cell_idx > Len(stake_cells)
    /\ \E all_stakes \in SortedByAmount(new_smt) :
         LET non_top == NonTop(all_stakes, DeleteCount(new_smt, quorum))
         IN /\ new_smt' = [s \in DOMAIN new_smt \ non_top |-> new_smt[s]]
            /\ non_top_stakers' = [s \in non_top |-> s \in DOMAIN old_smt]
    /\ bpc' = "evicted"
    /\ UNCHANGED <<quorum, stake_cells, smt_leaves, cell_idx, old_smt,
                   withdraw_amounts, inputs_stake_cells, tx, build_result>>

\* the stakers of the loop of stake_smt.rs:327-351 whose cell has to be fetched
ToFetch ==
    { s \in DOMAIN non_top_stakers :
        non_top_stakers[s] /\ s \notin DOMAIN inputs_stake_cells }

\* the loop without the else branch of stake_smt.rs:348-350: the candidate cell
\* of an evicted new entrant stays among the inputs
AfterEvictionKeepsEntrants ==
    /\ bpc = "evicted"
    /\ withdraw_amounts' =
         [s \in DOMAIN withdraw_amounts
                  \cup {n \in DOMAIN non_top_stakers : non_top_stakers[n]} |->
            IF s \in DOMAIN non_top_stakers /\ non_top_stakers[s]
            THEN old_smt[s]
            ELSE withdraw_amounts[s]]
    /\ inputs_stake_cells' =
         [s \in DOMAIN inputs_stake_cells \cup ToFetch |->
            IF s \in DOMAIN inputs_stake_cells
            THEN inputs_stake_cells[s]
            ELSE LiveStakeCell(s, old_smt[s])]
    /\ bpc' = "commit"
    /\ UNCHANGED <<quorum, stake_cells, smt_leaves, cell_idx, old_smt, new_smt,
                   non_top_stakers, tx, build_result>>

\* stake_smt.rs:327-351, every Stake::get_cell succeeding
AfterEviction ==
    /\ bpc = "evicted"
    /\ withdraw_amounts' =
         [s \in DOMAIN withdraw_amounts
                  \cup {n \in DOMAIN non_top_stakers : non_top_stakers[n]} |->
            IF s \in DOMAIN non_top_stakers /\ non_top_stakers[s]
            THEN old_smt[s]
            ELSE withdraw_amounts[s]]
    /\ inputs_stake_cells' =
         [s \in (DOMAIN inputs_stake_cells \cup ToFetch)
                  \ {n \in DOMAIN non_top_stakers : ~non_top_stakers[n]} |->
            IF s \in DOMAIN inputs_stake_cells
            THEN inputs_stake_cells[s]
            ELSE LiveStakeCell(s, old_smt[s])]
    /\ bpc' = "commit"
    /\ UNCHANGED <<quorum, stake_cells, smt_leaves, cell_idx, old_smt, new_smt,
                   non_top_stakers, tx, build_result>>

\* stake_smt.rs:338-344: Stake::get_cell fails or finds no cell
FetchFails ==
    /\ bpc = "evicted"
    /\ ToFetch # {}
    /\ Fail("cell_not_found")
    /\ UNCHANGED <<quorum, stake_cells, smt_leaves, cell_idx, old_smt, new_smt,
                   withdraw_amounts, inputs_stake_cells, non_top_stakers>>

\* stake_smt.rs:354-365 and 261-276: the proofs and update_stake_smt
UpdateStakeSmt ==
    /\ bpc = "commit"
    /\ smt_leaves' = SmtInsertIncreases(smt_leaves, new_smt)
    /\ bpc' = "fill"
    /\ UNCHANGED <<quorum, stake_cells, cell_idx, old_smt, new_smt, withdraw_amounts,
                   inputs_stake_cells, non_top_stakers, tx, build_result>>

\* generate_top_proof, insert or get_top_root fails
UpdateStakeSmtFails ==
    /\ bpc = "commit"
    /\ Fail("smt_error")
    /\ UNCHANGED <<quorum, stake_cells, smt_leaves, cell_idx, old_smt, new_smt,
                   withdraw_amounts, inputs_stake_cells, non_top_stakers>>

\* stake_smt.rs:104-114 and 162-252, every Withdraw::get_cell succeeding
FillTxAction ==
    /\ bpc = "fill"
    /\ \E order \in OrdersOf(DOMAIN inputs_stake_cells) :
         LET t == FillTx(tx, order, inputs_stake_cells, withdraw_amounts)
         IN tx' = [t EXCEPT !.witnesses = @ \o <<"capacity_provider">>]
    /\ bpc' = "balance"
    /\ UNCHANGED <<quorum, stake_cells, smt_leaves, cell_idx, old_smt, new_smt,
                   withdraw_amounts, inputs_stake_cells, non_top_stakers,
                   build_result>>

\* stake_smt.rs:191-194: Withdraw::get_cell fails or finds no cell
WithdrawCellMissing ==
    /\ bpc = "fill"
    /\ DOMAIN inputs_stake_cells \cap DOMAIN withdraw_amounts # {}
    /\ Fail("cell_not_found")
    /\ UNCHANGED <<quorum, stake_cells, smt_leaves, cell_idx, old_smt, new_smt,
                   withdraw_amounts, inputs_stake_cells, non_top_stakers>>

\* stake_smt.rs:116-152: the cell deps, balance and sign; the transaction is returned
BalanceAndSign ==
    /\ bpc = "balance"
    /\ bpc' = "done"
    /\ build_result' = "ok"
    /\ UNCHANGED <<quorum, stake_cells, smt_leaves, cell_idx, old_smt, new_smt,
                   withdraw_amounts, inputs_stake_cells, non_top_stakers, tx>>

\* Checkpoint::cell_dep, Metadata::cell_dep, balance or sign fails
BalanceFails ==
    /\ bpc = "balance"
    /\ Fail("rpc_error")
    /\ UNCHANGED <<quorum, stake_cells, smt_leaves, cell_idx, old_smt, new_smt,
                   withdraw_amounts, inputs_stake_cells, non_top_stakers>>

(***************************************************************************)
(* The inputs of SpecAgg.                                                  *)
(***************************************************************************)
\* leaf and delta amounts are 1..MaxAmount
MaxAmount == 2

\* the candidate batch has at most MaxCells cells
MaxCells == 2

\* 3 * quorum is 0 (every staker evicted), 3 (one or two evicted) or 6 (none)
Quorums == {0, 1, 2}

\* the stakers that may hold a leaf before the run; staker 4 is always new
OldStakers == {1, 2, 3, 5}

\* a stake AT cell holds the staker's stake, which covers every leaf the fold
\* can reach, and what its own pending increase added
StakeCovered == MaxAmount * (MaxCells + 1)

CellTotal(inc, amt) == StakeCovered + (IF inc THEN amt ELSE 0)

\* stakers 2, 3 and 5 hold a leaf, staker 1 may
OldSmts ==
    { [s \in keys |-> IF s = 3 THEN MaxAmount ELSE IF s = 5 THEN 1 ELSE amt[s]] :
        keys \in {{2, 3, 5}, {1, 2, 3, 5}}, amt \in [{1, 2} -> 1..MaxAmount] }

\* staker 1 increases or decreases, the new staker 4 increases, and one
\* candidate is stale
CandidateCells ==
    { [staker |-> 1, total |-> CellTotal(inc, amt), is_increase |-> inc,
       amount |-> amt, inauguration_epoch |-> BuilderEpoch + INAUGURATION] :
        inc \in BOOLEAN, amt \in 1..MaxAmount }
      \cup { [staker |-> 4, total |-> CellTotal(TRUE, amt), is_increase |-> TRUE,
              amount |-> amt, inauguration_epoch |-> BuilderEpoch + INAUGURATION] :
               amt \in 1..MaxAmount }
      \cup { [staker |-> 1, total |-> CellTotal(TRUE, 1), is_increase |-> TRUE,
              amount |-> 1, inauguration_epoch |-> BuilderEpoch + INAUGURATION - 1] }

\* the batch: cell i of the batch has out point <<"candidate", i>>
Batches ==
    UNION { [1..n -> CandidateCells] : n \in 0..MaxCells }

WithOutPoints(batch) ==
    [i \in DOMAIN batch |->
        Cell(<<"candidate", i>>, batch[i].staker, batch[i].total,
             batch[i].is_increase, batch[i].amount, batch[i].inauguration_epoch)]

BuilderInit ==
    /\ quorum \in Quorums
    /\ smt_leaves \in OldSmts
    /\ \E batch \in Batches : stake_cells = WithOutPoints(batch)
    /\ bpc = "start"
    /\ BuilderLocalsInit

\* no builder, in the specifications of the other components
BuilderIdle ==
    /\ quorum = 0
    /\ smt_leaves = EmptyMap
    /\ stake_cells = <<>>
    /\ bpc = "idle"
    /\ BuilderLocalsInit

(***************************************************************************)
(* The synchroniser (sync/src/lib.rs) with the stores it writes and the    *)
(* process it runs in (src/main.rs).                                       *)
(*                                                                         *)
(* One action is one step of the sync task between two suspension points:  *)
(* the reads that precede a write belong to the action of the write, since *)
(* the task is the only writer of the stores.  A `?` that returns Err      *)
(* reaches `parse_block(block).await.unwrap()` (lib.rs:113) and ends the   *)
(* task; a crash ends the process at any suspension point.                 *)
(***************************************************************************)

\* config.start_number, handed to Synchronization::new
START_NUMBER == 0

StakerA == Zeros(19) \o <<7>>

StakerB == <<2>> \o Zeros(19)

DelegatorD == Zeros(10) \o <<1>> \o Zeros(9)

(***************************************************************************)
(* Transactions, by what the classifiers read of their outputs: the code   *)
(* hash and args of the type script and the code hash of the lock.         *)
(***************************************************************************)
MetadataCell(epoch) ==
    [type_code |-> "METADATA_CODE_HASH", type_args |-> "METADATA_TYPE_ID",
     lock_code |-> "other", data |-> [epoch |-> epoch]]

StakeAtCell(staker, inc, amt) ==
    [type_code |-> "xudt", type_args |-> "AXON_TOKEN_ARGS",
     lock_code |-> "STAKE_AT_CODE_HASH",
     data |-> [stake_addr |-> staker, delta |-> Delta(inc, amt)]]

\* delegator_infos is a sequence of [staker, is_increase, amount]
DelegateAtCell(delegator, infos) ==
    [type_code |-> "xudt", type_args |-> "AXON_TOKEN_ARGS",
     lock_code |-> "DELEGATE_AT_CODE_HASH",
     data |-> [delegator_addr |-> delegator, delegator_infos |-> infos]]

StakeSmtCell ==
    [type_code |-> "STAKE_SMT_CODE_HASH", type_args |-> "ISSUANCE_TYPE_ID",
     lock_code |-> "other", data |-> [root |-> "smt"]]

OtherCell ==
    [type_code |-> "other", type_args |-> "other", lock_code |-> "other",
     data |-> [capacity |-> 0]]

DelegateSmtCell ==
    [type_code |-> "DELEGATE_SMT_CODE_HASH", type_args |-> "ISSUANCE_TYPE_ID",
     lock_code |-> "other", data |-> [root |-> "smt"]]

\* the stake AT lock on a cell with no type script (c.type_ is None)
StakeLockNoTypeCell ==
    [type_code |-> "none", type_args |-> "none",
     lock_code |-> "STAKE_AT_CODE_HASH", data |-> [capacity |-> 0]]

\* the stake SMT code hash with args that are not the issuance type id
StakeSmtOtherArgsCell ==
    [type_code |-> "STAKE_SMT_CODE_HASH", type_args |-> "other",
     lock_code |-> "other", data |-> [root |-> "smt"]]

\* the index of the first output that matches, 0 for None; matches is the
\* set of the indexes of the outputs the loop's condition holds for
FirstIndex(matches) ==
    IF matches = {} THEN 0
    ELSE CHOOSE i \in matches : \A j \in matches : i <= j

None == -1

\* no tip has been read in this iteration of run
NoTip == -1

GetMetadataCellEpoch(t) ==
    LET i == FirstIndex({k \in 1..Len(t.outputs) :
                            /\ t.outputs[k].type_code = "METADATA_CODE_HASH"
                            /\ t.outputs[k].type_args = "METADATA_TYPE_ID"})
    IN IF i = 0 THEN None ELSE t.outputs[i].data.epoch

GetStakeTxStakeAtCellIndex(t) ==
    FirstIndex({k \in 1..Len(t.outputs) :
                  /\ t.outputs[k].type_args = "AXON_TOKEN_ARGS"
                  /\ t.outputs[k].lock_code = "STAKE_AT_CODE_HASH"})

GetDelegateTxDelegateAtIndex(t) ==
    FirstIndex({k \in 1..Len(t.outputs) :
                  /\ t.outputs[k].type_args = "AXON_TOKEN_ARGS"
                  /\ t.outputs[k].lock_code = "DELEGATE_AT_CODE_HASH"})

IsUpdateStakeSmtTx(t) ==
    /\ GetStakeTxStakeAtCellIndex(t) # 0
    /\ \E i \in 1..Len(t.outputs) :
         /\ t.outputs[i].type_code = "STAKE_SMT_CODE_HASH"
         /\ t.outputs[i].type_args = "ISSUANCE_TYPE_ID"

IsDelegateSmtTx(t) ==
    /\ GetDelegateTxDelegateAtIndex(t) # 0
    /\ \E i \in 1..Len(t.outputs) :
         /\ t.outputs[i].type_code = "DELEGATE_SMT_CODE_HASH"
         /\ t.outputs[i].type_args = "ISSUANCE_TYPE_ID"

ParseBlockArmStakeFirst(t) ==
    IF GetMetadataCellEpoch(t) # None THEN 1
    ELSE IF GetStakeTxStakeAtCellIndex(t) # 0 THEN 4
    ELSE IF GetDelegateTxDelegateAtIndex(t) # 0 THEN 5
    ELSE IF IsUpdateStakeSmtTx(t) THEN 2
    ELSE IF IsDelegateSmtTx(t) THEN 3
    ELSE 6

\* the arm of the if-else chain of parse_block a transaction takes, counted
\* from 1, the closing else is 6
ParseBlockArm(t) ==
    IF GetMetadataCellEpoch(t) # None THEN 1
    ELSE IF IsUpdateStakeSmtTx(t) THEN 2
    ELSE IF IsDelegateSmtTx(t) THEN 3
    ELSE IF GetStakeTxStakeAtCellIndex(t) # 0 THEN 4
    ELSE IF GetDelegateTxDelegateAtIndex(t) # 0 THEN 5
    ELSE 6

ArmBodyAggregationHandled(arm) ==
    CASE arm = 1 -> "new_epoch"
      [] arm \in {2, 4} -> "stake"
      [] arm \in {3, 5} -> "delegate"
      [] OTHER -> "continue"

\* what the arm does: a handler is called or the loop continues
ArmBody(arm) ==
    CASE arm = 1 -> "new_epoch"
      [] arm = 4 -> "stake"
      [] arm = 5 -> "delegate"
      [] OTHER -> "continue"

\* the branch the if-else chain of parse_block takes for a transaction
Classify(t) == ArmBody(ParseBlockArm(t))

(***************************************************************************)
(* parse_block's chain as a function of one transaction: the outputs are   *)
(* drawn from the kinds of cell the classifiers tell apart.                *)
(***************************************************************************)
MaxOutputs == 3

CellKinds ==
    { MetadataCell(1),
      StakeAtCell("A", TRUE, 1),
      DelegateAtCell("D", << [staker |-> "A", is_increase |-> TRUE, amount |-> 1] >>),
      StakeSmtCell, DelegateSmtCell, StakeLockNoTypeCell, StakeSmtOtherArgsCell,
      OtherCell }

OutputLists == UNION {[1..n -> CellKinds] : n \in 0..MaxOutputs}

NoClass == [arm |-> 0, body |-> "none"]

ClassifyInit ==
    /\ cf_tx \in {[hash |-> <<0, 1>>, outputs |-> o] : o \in OutputLists}
    /\ cf_class = NoClass

ClassifyIdle ==
    /\ cf_tx = [hash |-> <<0, 1>>, outputs |-> <<>>]
    /\ cf_class = NoClass

\* one iteration of the loop of parse_block, up to the branch taken
ApplyClassify ==
    /\ cf_class = NoClass
    /\ cf_class' = [arm |-> ParseBlockArm(cf_tx), body |-> Classify(cf_tx)]
    /\ UNCHANGED cf_tx

(***************************************************************************)
(* SmtManager, the contract of section 4.A.  A store is a function from    *)
(* the epochs with a working set to the leaves of the epoch.               *)
(***************************************************************************)
EpochLeaves(smt, epoch) == IF epoch \in DOMAIN smt THEN smt[epoch] ELSE EmptyMap

\* get_amount(epoch, user).unwrap_or_default()
SmtGetAmount(smt, epoch, user) == LeafOf(EpochLeaves(smt, epoch), user)

\* new_epoch(epoch): clones the leaves of epoch - 1; idempotent
SmtNewEpoch(smt, epoch) ==
    IF epoch \in DOMAIN smt THEN smt
    ELSE MapInsert(smt, epoch, EpochLeaves(smt, epoch - 1))

\* insert(epoch, amounts), every amount with is_increase: true
SmtInsert(smt, epoch, amounts) ==
    IF DOMAIN amounts = {} THEN smt
    ELSE MapInsert(smt, epoch, SmtInsertIncreases(EpochLeaves(smt, epoch), amounts))

\* the one-entry vec![UserAmount {user, amount, is_increase: true}]
OneAmount(user, amount) == [u \in {user} |-> amount]

(***************************************************************************)
(* KVDB (storage/src/kvdb.rs).                                             *)
(***************************************************************************)
CURRENT_EPOCH_KEY == "current_epoch"

InsertCurrentEpochBigEndian(kv, epoch) ==
    MapInsert(kv, CURRENT_EPOCH_KEY, [i \in 1..8 |-> ToLeBytes(epoch, 8)[9 - i]])

InsertCurrentEpoch(kv, epoch) == MapInsert(kv, CURRENT_EPOCH_KEY, ToLeBytes(epoch, 8))

GetCurrentEpoch(kv) ==
    IF CURRENT_EPOCH_KEY \in DOMAIN kv
    THEN FromLeBytes(Slice(kv[CURRENT_EPOCH_KEY], 0, 8))
    ELSE 0

\* get_staker_status (kvdb.rs:51-55): the Option as a set, {} for None; the
\* column holds only the current-epoch key unless a status was inserted
GetStakerStatus(kv, key) ==
    { kv[k] : k \in { j \in DOMAIN kv : j # CURRENT_EPOCH_KEY /\ j = key } }

(***************************************************************************)
(* RelationDB (storage/src/relation_db/mod.rs).                            *)
(***************************************************************************)
OperationStake == 0

OperationDelegate == 1

RECURSIVE MaxId(_)
MaxId(rows) ==
    IF rows = <<>> THEN 0
    ELSE LET m == MaxId(Tail(rows))
         IN IF Head(rows).id > m THEN Head(rows).id ELSE m

\* get_id: the greatest id, 0 for an empty table
GetId(rows) == MaxId(rows)

\* get_latest_block_number: the greatest tx_block, None for an empty table
GetLatestBlockNumber(rows) ==
    IF rows = <<>> THEN None
    ELSE CHOOSE n \in {rows[i].tx_block : i \in 1..Len(rows)} :
            \A i \in 1..Len(rows) : rows[i].tx_block <= n

\* api.rs:58-65: the codes of HistoryEvent
HistoryEventAdd == 0

HistoryEventRedeem == 1

\* `is_increase.into()` (lib.rs:231, 317): bool into the integer column, true
\* is 1 and false is 0
BoolInto(b) == IF b THEN 1 ELSE 0

HistoryModel(id, t, block_number, address, amount, operation, event, epoch) ==
    [id |-> id, tx_hash |-> t.hash, tx_block |-> block_number,
     address |-> address, amount |-> amount, operation |-> operation,
     event |-> event, epoch |-> epoch]

NewTotalAmount ==
    [stake_amount |-> 0, delegate_amount |-> 0, withdrawable_amount |-> 0,
     reward_lock_amount |-> 0, reward_unlock_amount |-> 0]

AddToTotal(row, operation, amount) ==
    CASE operation = 0 -> [row EXCEPT !.stake_amount = @ + amount]
      [] operation = 1 -> [row EXCEPT !.delegate_amount = @ + amount]
      [] operation = 2 -> [row EXCEPT !.reward_lock_amount = @ + amount]
      [] OTHER -> row

\* the first half of insert_history: get_status, then the insert or the update
\* of the address's total_amount row
InsertHistoryTotal(totals, address, operation, amount) ==
    IF address \notin DOMAIN totals
    THEN MapInsert(totals, address, AddToTotal(NewTotalAmount, operation, amount))
    ELSE MapInsert(totals, address, AddToTotal(totals[address], operation, amount))

\* the second half of insert_history: the insert of the record
InsertHistoryRow(rows, record) == Append(rows, record)

(***************************************************************************)
(* The order of the awaited writes of the handlers.  "begin" is the point  *)
(* after the reads, "return" is Ok(()) and "next_item" the next iteration  *)
(* of the loop over delegator_infos.                                       *)
(***************************************************************************)
StakeFlowSmtFirst(p) ==
    CASE p = "begin" -> "stake_smt"
      [] p = "stake_smt" -> "stake_total"
      [] p = "stake_total" -> "stake_row"
      [] p = "stake_row" -> "stake_build"
      [] p = "stake_build" -> "return"

StakeFlow(p) ==
    CASE p = "begin" -> "stake_total"
      [] p = "stake_total" -> "stake_row"
      [] p = "stake_row" -> "stake_smt"
      [] p = "stake_smt" -> "stake_build"
      [] p = "stake_build" -> "return"

DelegateFlow(p) ==
    CASE p = "begin" -> "delegate_total"
      [] p = "delegate_total" -> "delegate_row"
      [] p = "delegate_row" -> "delegate_smt"
      [] p = "delegate_smt" -> "next_item"

\* the quorum handle_stake_tx hands to StakeSmtTxBuilder::new
SyncQuorum == 10

\* what build_tx with no candidate cells hands to update_stake_smt: the old
\* leaves without the stakers collect_non_top_stakers evicts
StakeBuildNewSmts(old) ==
    { [s \in DOMAIN old \ NonTop(o, DeleteCount(old, SyncQuorum)) |-> old[s]] :
        o \in SortedByAmount(old) }

\* DelegateSmtTxBuilder with no candidate cells, by section 4.G: the old
\* leaves, each written with insert
DelegateBuildNewSmts(old) == {old}

(***************************************************************************)
(* The state of the task.                                                  *)
(***************************************************************************)
Block == chain[current_number + 1]

CurTx == Block.transactions[tx_idx]

StakeCell == CurTx.outputs[GetStakeTxStakeAtCellIndex(CurTx)]

DelegateCell == CurTx.outputs[GetDelegateTxDelegateAtIndex(CurTx)]

CurItem == DelegateCell.data.delegator_infos[item_idx]

\* the addresses of the leaves of the delegate SMT: <<staker, delegator>>
DelegateLeaf(staker, delegator) == <<staker, delegator>>

Count(f, k) == IF k \in DOMAIN f THEN f[k] ELSE 0

Bump(f, k) == MapInsert(f, k, Count(f, k) + 1)

HistoryKeys(rows) ==
    {<<rows[i].tx_hash, rows[i].address, rows[i].operation>> : i \in 1..Len(rows)}

NoResume ==
    [number |-> None, from_history |-> FALSE, done |-> FALSE, keys |-> {},
     total_amount |-> EmptyMap, stake_smt |-> EmptyMap, delegate_smt |-> EmptyMap]

(***************************************************************************)
(* The blocks the chain can hold.                                          *)
(***************************************************************************)
MaxBlocks == 2

MaxRestarts == 1

\* the epoch of the metadata cell: the rollovers on the chain so far
RECURSIVE ChainEpoch(_)
ChainEpoch(blocks) ==
    IF blocks = <<>> THEN 0
    ELSE ChainEpoch(SubSeq(blocks, 1, Len(blocks) - 1))
         + Cardinality({i \in 1..Len(blocks[Len(blocks)].transactions) :
              GetMetadataCellEpoch(blocks[Len(blocks)].transactions[i]) # None})

BlockShapes(epoch) ==
    { << <<StakeAtCell(StakerA, TRUE, 1)>> >>,
      << <<StakeAtCell(StakerA, FALSE, 1)>> >>,
      << <<DelegateAtCell(DelegatorD, << [staker |-> StakerA, is_increase |-> TRUE, amount |-> 1],
                                         [staker |-> StakerB, is_increase |-> TRUE, amount |-> 2] >>)>> >>,
      << <<StakeAtCell(StakerA, TRUE, 1)>>, <<MetadataCell(epoch)>> >>,
      << <<StakeAtCell(StakerA, TRUE, 1), StakeSmtCell>>,
         <<DelegateAtCell(DelegatorD, << [staker |-> StakerA, is_increase |-> TRUE, amount |-> 1] >>),
           DelegateSmtCell>>,
         <<OtherCell>> >> }

NewBlock(number, shape) ==
    [number |-> number,
     transactions |-> [i \in 1..Len(shape) |-> [hash |-> <<number, i>>, outputs |-> shape[i]]]]

SyncInit ==
    /\ chain = <<>>
    /\ history = <<>>
    /\ total_amount = EmptyMap
    /\ kv_stake = EmptyMap
    /\ kv_delegate = EmptyMap
    /\ stake_smt = EmptyMap
    /\ delegate_smt = EmptyMap
    /\ reward_smt = EmptyMap
    /\ current_number = START_NUMBER
    /\ current_epoch = GetCurrentEpoch(EmptyMap)
    /\ pc = "loop"
    /\ tx_idx = 1
    /\ item_idx = 1
    /\ delegate_status = EmptyMap
    /\ delta_u64 = 0
    /\ tip = NoTip
    /\ restarts = 0
    /\ smt_applied = EmptyMap
    /\ kv_applied = EmptyMap
    /\ completed = {}
    /\ resumed = NoResume
    /\ handed = <<>>
    /\ handled = <<>>

\* no synchroniser, in the specifications of the other components
SyncIdle ==
    /\ chain = <<>>
    /\ history = <<>>
    /\ total_amount = EmptyMap
    /\ kv_stake = EmptyMap
    /\ kv_delegate = EmptyMap
    /\ stake_smt = EmptyMap
    /\ delegate_smt = EmptyMap
    /\ reward_smt = EmptyMap
    /\ current_number = START_NUMBER
    /\ current_epoch = 0
    /\ pc = "idle"
    /\ tx_idx = 1
    /\ item_idx = 1
    /\ delegate_status = EmptyMap
    /\ delta_u64 = 0
    /\ tip = NoTip
    /\ restarts = 0
    /\ smt_applied = EmptyMap
    /\ kv_applied = EmptyMap
    /\ completed = {}
    /\ resumed = NoResume
    /\ handed = <<>>
    /\ handled = <<>>

(***************************************************************************)
(* run and parse_block.                                                    *)
(***************************************************************************)
\* the confirmation lag of lib.rs:100
LAG == 24

\* a tip below the lag
LowTip == 1

\* what get_indexer_tip can answer while the task is at block n: a tip below
\* the lag, the greatest tip that makes the task sleep and the least that
\* makes it fetch
Tips(n) == {LowTip, n + LAG, n + LAG + 1}

\* tip - 24 on u64 with tip < 24: a panic with overflow checks, else the
\* difference wraps to 2^64 - (24 - tip)
TipMinusLagOverflows(t) == t < LAG

\* tip - 24 > current_number; the wrapped difference is at least 2^64 - 24,
\* above every block number below it
LagPassed(t, n) == IF TipMinusLagOverflows(t) THEN TRUE ELSE t - LAG > n

\* get_block_by_number(n) answers Some: the node holds the blocks up to the tip
BlockExists(n, t) == n <= t

NextNumberStays(n) == n

\* run: self.current_number += 1 (lib.rs:114)
NextNumber(n) == n + 1

\* the handler returned Ok: the next transaction of the block, or parse_block
\* returns and run adds 1 to current_number (lib.rs:113-114)
FinishTx ==
    IF tx_idx < Len(Block.transactions)
    THEN /\ pc' = "dispatch"
         /\ tx_idx' = tx_idx + 1
         /\ UNCHANGED <<current_number, completed>>
    ELSE /\ pc' = "loop"
         /\ tx_idx' = 1
         /\ current_number' = NextNumber(current_number)
         /\ completed' = completed \cup {current_number}

\* the task panics at the unwrap of lib.rs:113
TaskEnds(how) ==
    /\ pc' = how
    /\ UNCHANGED <<current_number, tx_idx, completed>>

\* run: get_indexer_tip answers (lib.rs:91-93)
ReadTip ==
    /\ pc = "loop"
    /\ tip' \in Tips(current_number)
    /\ pc' = "tip_read"
    /\ UNCHANGED <<chain, storeVars, current_number, current_epoch, tx_idx,
                   item_idx, delegate_status, delta_u64, runVars>>

\* run: the else branch of lib.rs:100, sleep(3s) and the next iteration
Sleep ==
    /\ pc = "tip_read"
    /\ ~TipMinusLagOverflows(tip)
    /\ ~LagPassed(tip, current_number)
    /\ pc' = "loop"
    /\ tip' = NoTip
    /\ UNCHANGED <<chain, storeVars, current_number, current_epoch, tx_idx,
                   item_idx, delegate_status, delta_u64, runVars>>

\* run: tip - 24 with tip < 24 in a build with overflow checks
TipUnderflowPanics ==
    /\ pc = "tip_read"
    /\ TipMinusLagOverflows(tip)
    /\ TaskEnds("failed")
    /\ tip' = NoTip
    /\ UNCHANGED <<chain, storeVars, current_epoch, item_idx, delegate_status,
                   delta_u64, restarts, smt_applied, kv_applied, resumed,
                   handed, handled>>

\* run: the condition of lib.rs:100 holds and get_block_by_number answers
\* with the block, which parse_block is handed
FetchBlock ==
    /\ pc = "tip_read"
    /\ LagPassed(tip, current_number)
    /\ BlockExists(current_number, tip)
    /\ \/ /\ current_number < Len(chain)
          /\ UNCHANGED chain
       \/ /\ current_number = Len(chain)
          /\ Len(chain) < MaxBlocks
          /\ \E shape \in BlockShapes(ChainEpoch(chain) + 1) :
                chain' = Append(chain, NewBlock(current_number, shape))
    /\ pc' = "dispatch"
    /\ tx_idx' = 1
    /\ tip' = NoTip
    /\ handed' = Append(handed, current_number)
    /\ UNCHANGED <<storeVars, current_number, current_epoch, item_idx,
                   delegate_status, delta_u64, restarts, smt_applied,
                   kv_applied, completed, resumed, handled>>

\* run: get_block_by_number answers None and the unwrap of lib.rs:107 panics
BlockMissingPanics ==
    /\ pc = "tip_read"
    /\ LagPassed(tip, current_number)
    /\ ~BlockExists(current_number, tip)
    /\ TaskEnds("failed")
    /\ tip' = NoTip
    /\ UNCHANGED <<chain, storeVars, current_epoch, item_idx, delegate_status,
                   delta_u64, restarts, smt_applied, kv_applied, resumed,
                   handed, handled>>

\* run: match_err! meets an Err of get_indexer_tip or of get_block_by_number
\* and continues the loop
RpcFails ==
    /\ \/ /\ pc = "loop"
          /\ UNCHANGED tip
       \/ /\ pc = "tip_read"
          /\ LagPassed(tip, current_number)
          /\ tip' = NoTip
    /\ pc' = "loop"
    /\ UNCHANGED <<chain, storeVars, current_number, current_epoch, tx_idx,
                   item_idx, delegate_status, delta_u64, runVars>>

\* parse_block: the branches that continue
SkipTx ==
    /\ pc = "dispatch"
    /\ Classify(CurTx) = "continue"
    /\ FinishTx
    /\ handled' = Append(handled, CurTx.hash)
    /\ UNCHANGED <<chain, storeVars, current_epoch, item_idx, delegate_status,
                   delta_u64, tip, restarts, handed, smt_applied, kv_applied,
                   resumed>>

(***************************************************************************)
(* handle_new_epoch.                                                       *)
(***************************************************************************)
NewEpochSwap ==
    /\ pc = "dispatch"
    /\ Classify(CurTx) = "new_epoch"
    /\ current_epoch' = GetMetadataCellEpoch(CurTx)
    /\ pc' = "new_epoch_stake"
    /\ handled' = Append(handled, CurTx.hash)
    /\ UNCHANGED <<chain, storeVars, current_number, tx_idx, item_idx,
                   delegate_status, delta_u64, tip, restarts, smt_applied,
                   kv_applied, completed, resumed, handed>>

NewEpochStakeSmt ==
    /\ pc = "new_epoch_stake"
    /\ stake_smt' = SmtNewEpoch(stake_smt, GetMetadataCellEpoch(CurTx))
    /\ pc' = "new_epoch_delegate"
    /\ UNCHANGED <<chain, history, total_amount, kv_stake, kv_delegate,
                   delegate_smt, reward_smt, current_number, current_epoch,
                   tx_idx, item_idx, delegate_status, delta_u64, tip, runVars>>

NewEpochDelegateSmt ==
    /\ pc = "new_epoch_delegate"
    /\ delegate_smt' = SmtNewEpoch(delegate_smt, GetMetadataCellEpoch(CurTx))
    /\ pc' = "new_epoch_kv"
    /\ UNCHANGED <<chain, history, total_amount, kv_stake, kv_delegate,
                   stake_smt, reward_smt, current_number, current_epoch,
                   tx_idx, item_idx, delegate_status, delta_u64, tip, runVars>>

NewEpochKv ==
    /\ pc = "new_epoch_kv"
    /\ kv_stake' = InsertCurrentEpoch(kv_stake, GetMetadataCellEpoch(CurTx))
    /\ FinishTx
    /\ UNCHANGED <<chain, history, total_amount, kv_delegate, stake_smt,
                   delegate_smt, reward_smt, current_epoch, item_idx,
                   delegate_status, delta_u64, tip, restarts, handed, handled, smt_applied, kv_applied,
                   resumed>>

(***************************************************************************)
(* handle_stake_tx.                                                        *)
(***************************************************************************)
\* original + amount or original - amount, as u64 and then as i64: an
\* underflow of the u128 that wraps shows as the negative difference
NewAmount(original, d) ==
    IF d.is_increase THEN original + d.amount ELSE original - d.amount

Underflows(original, d) == ~d.is_increase /\ d.amount > original

StakeGoto(p) ==
    IF p = "return" THEN FinishTx
    ELSE /\ pc' = p
         /\ UNCHANGED <<current_number, tx_idx, completed>>

\* the reads up to the computation of delta_u64 (lib.rs:278-304)
StakeBegin ==
    /\ pc = "dispatch"
    /\ Classify(CurTx) = "stake"
    /\ delta_u64' = NewAmount(SmtGetAmount(stake_smt, current_epoch, StakeCell.data.stake_addr),
                          StakeCell.data.delta)
    /\ pc' = StakeFlow("begin")
    /\ handled' = Append(handled, CurTx.hash)
    /\ UNCHANGED <<chain, storeVars, current_number, current_epoch, tx_idx,
                   item_idx, delegate_status, tip, restarts, smt_applied,
                   kv_applied, completed, resumed, handed>>

StakeInsertTotal ==
    /\ pc = "stake_total"
    /\ total_amount' = InsertHistoryTotal(total_amount, StakeCell.data.stake_addr,
                                          OperationStake, delta_u64)
    /\ StakeGoto(StakeFlow(pc))
    /\ UNCHANGED <<chain, history, kv_stake, kv_delegate, stake_smt,
                   delegate_smt, reward_smt, current_epoch, item_idx,
                   delegate_status, delta_u64, tip, restarts, handed, handled, smt_applied, kv_applied,
                   resumed>>

StakeInsertRow ==
    /\ pc = "stake_row"
    /\ history' = InsertHistoryRow(history,
            HistoryModel(GetId(history) + 1, CurTx, Block.number,
                         StakeCell.data.stake_addr, delta_u64, OperationStake,
                         BoolInto(StakeCell.data.delta.is_increase), current_epoch))
    /\ StakeGoto(StakeFlow(pc))
    /\ UNCHANGED <<chain, total_amount, kv_stake, kv_delegate, stake_smt,
                   delegate_smt, reward_smt, current_epoch, item_idx,
                   delegate_status, delta_u64, tip, restarts, handed, handled, smt_applied, kv_applied,
                   resumed>>

StakeSmtInsert ==
    /\ pc = "stake_smt"
    /\ stake_smt' = SmtInsert(stake_smt, current_epoch,
                        OneAmount(StakeCell.data.stake_addr, StakeCell.data.delta.amount))
    /\ smt_applied' = Bump(smt_applied, CurTx.hash)
    /\ StakeGoto(StakeFlow(pc))
    /\ UNCHANGED <<chain, history, total_amount, kv_stake, kv_delegate,
                   delegate_smt, reward_smt, current_epoch, item_idx,
                   delegate_status, delta_u64, tip, restarts, handed, handled, kv_applied, resumed>>

\* StakeSmtTxBuilder::new(.., epoch, .., 10, vec![], ..).build_tx() returns Ok
StakeBuildTx ==
    /\ pc = "stake_build"
    /\ \E new \in StakeBuildNewSmts(EpochLeaves(stake_smt, current_epoch + INAUGURATION)) :
          stake_smt' = SmtInsert(stake_smt, current_epoch + INAUGURATION, new)
    /\ StakeGoto(StakeFlow(pc))
    /\ UNCHANGED <<chain, history, total_amount, kv_stake, kv_delegate,
                   delegate_smt, reward_smt, current_epoch, item_idx,
                   delegate_status, delta_u64, tip, restarts, handed, handled, smt_applied, kv_applied,
                   resumed>>

\* build_tx returns Err after update_stake_smt has written the store
StakeBuildTxFailsLate ==
    /\ pc = "stake_build"
    /\ \E new \in StakeBuildNewSmts(EpochLeaves(stake_smt, current_epoch + INAUGURATION)) :
          stake_smt' = SmtInsert(stake_smt, current_epoch + INAUGURATION, new)
    /\ TaskEnds("failed")
    /\ UNCHANGED <<chain, history, total_amount, kv_stake, kv_delegate,
                   delegate_smt, reward_smt, current_epoch, item_idx,
                   delegate_status, delta_u64, tip, restarts, handed, handled, smt_applied, kv_applied,
                   resumed>>

(***************************************************************************)
(* handle_delegate_tx.                                                     *)
(***************************************************************************)
\* get_delegator_status and the decode of the stored bytes (lib.rs:189-192)
DelegateLoadStatus ==
    /\ pc = "dispatch"
    /\ Classify(CurTx) = "delegate"
    /\ LET key == DelegateCell.data.delegator_addr
           decoded == IF key \in DOMAIN kv_delegate
                      THEN DelegateDeltasDecode(kv_delegate[key])
                      ELSE Ok(EmptyMap)
       IN IF decoded.ok
          THEN /\ delegate_status' = decoded.value
               /\ pc' = "delegate_item"
          ELSE /\ delegate_status' = EmptyMap
               /\ pc' = "failed"
    /\ item_idx' = 1
    /\ handled' = Append(handled, CurTx.hash)
    /\ UNCHANGED <<chain, storeVars, current_number, current_epoch, tx_idx,
                   delta_u64, tip, restarts, smt_applied, kv_applied,
                   completed, resumed, handed>>

DelegateGoto(p) ==
    IF p = "next_item"
    THEN /\ pc' = "delegate_item"
         /\ item_idx' = item_idx + 1
    ELSE /\ pc' = p
         /\ UNCHANGED item_idx

\* the head of the loop body: the default entry and the reads (lib.rs:195-218)
DelegateItemBegin ==
    /\ pc = "delegate_item"
    /\ item_idx <= Len(DelegateCell.data.delegator_infos)
    /\ delegate_status' =
          IF CurItem.staker \in DOMAIN delegate_status THEN delegate_status
          ELSE MapInsert(delegate_status, CurItem.staker,
                         DelegateDelta(CurItem.staker, DeltaDefault))
    /\ delta_u64' = NewAmount(SmtGetAmount(delegate_smt, current_epoch,
                              DelegateLeaf(CurItem.staker, DelegateCell.data.delegator_addr)),
                          Delta(CurItem.is_increase, CurItem.amount))
    /\ DelegateGoto(DelegateFlow("begin"))
    /\ UNCHANGED <<chain, storeVars, current_number, current_epoch, tx_idx,
                   tip, runVars>>

DelegateInsertTotal ==
    /\ pc = "delegate_total"
    /\ total_amount' = InsertHistoryTotal(total_amount, DelegateCell.data.delegator_addr,
                                          OperationDelegate, delta_u64)
    /\ DelegateGoto(DelegateFlow(pc))
    /\ UNCHANGED <<chain, history, kv_stake, kv_delegate, stake_smt,
                   delegate_smt, reward_smt, current_number, current_epoch,
                   tx_idx, delegate_status, delta_u64, tip, runVars>>

DelegateInsertRow ==
    /\ pc = "delegate_row"
    /\ history' = InsertHistoryRow(history,
            HistoryModel(GetId(history) + 1, CurTx, Block.number,
                         DelegateCell.data.delegator_addr, delta_u64, OperationDelegate,
                         BoolInto(CurItem.is_increase), current_epoch))
    /\ DelegateGoto(DelegateFlow(pc))
    /\ UNCHANGED <<chain, total_amount, kv_stake, kv_delegate, stake_smt,
                   delegate_smt, reward_smt, current_number, current_epoch,
                   tx_idx, delegate_status, delta_u64, tip, runVars>>

DelegateSmtInsert ==
    /\ pc = "delegate_smt"
    /\ delegate_smt' = SmtInsert(delegate_smt, current_epoch,
            OneAmount(DelegateLeaf(CurItem.staker, DelegateCell.data.delegator_addr),
                      CurItem.amount))
    /\ smt_applied' = Bump(smt_applied, CurTx.hash)
    /\ DelegateGoto(DelegateFlow(pc))
    /\ UNCHANGED <<chain, history, total_amount, kv_stake, kv_delegate,
                   stake_smt, reward_smt, current_number, current_epoch,
                   tx_idx, delegate_status, delta_u64, tip, restarts, handed, handled, kv_applied,
                   completed, resumed>>

\* after the loop: insert_delegator_status (lib.rs:253-255)
DelegateKvInsert ==
    /\ pc = "delegate_item"
    /\ item_idx > Len(DelegateCell.data.delegator_infos)
    /\ kv_delegate' = MapInsert(kv_delegate, DelegateCell.data.delegator_addr,
                                DelegateDeltasEncode(delegate_status))
    /\ kv_applied' = Bump(kv_applied, CurTx.hash)
    /\ pc' = "delegate_build"
    /\ UNCHANGED <<chain, history, total_amount, kv_stake, stake_smt,
                   delegate_smt, reward_smt, current_number, current_epoch,
                   tx_idx, item_idx, delegate_status, delta_u64, tip, restarts, handed, handled,
                   smt_applied, completed, resumed>>

\* DelegateSmtTxBuilder::new(.., epoch, .., vec![], ..).build_tx() returns Ok
DelegateBuildTx ==
    /\ pc = "delegate_build"
    /\ \E new \in DelegateBuildNewSmts(EpochLeaves(delegate_smt, current_epoch + INAUGURATION)) :
          delegate_smt' = SmtInsert(delegate_smt, current_epoch + INAUGURATION, new)
    /\ FinishTx
    /\ UNCHANGED <<chain, history, total_amount, kv_stake, kv_delegate,
                   stake_smt, reward_smt, current_epoch, item_idx,
                   delegate_status, delta_u64, tip, restarts, handed, handled, smt_applied, kv_applied,
                   resumed>>

\* build_tx returns Err after the delegate store was written
DelegateBuildTxFailsLate ==
    /\ pc = "delegate_build"
    /\ \E new \in DelegateBuildNewSmts(EpochLeaves(delegate_smt, current_epoch + INAUGURATION)) :
          delegate_smt' = SmtInsert(delegate_smt, current_epoch + INAUGURATION, new)
    /\ TaskEnds("failed")
    /\ UNCHANGED <<chain, history, total_amount, kv_stake, kv_delegate,
                   stake_smt, reward_smt, current_epoch, item_idx,
                   delegate_status, delta_u64, tip, restarts, handed, handled, smt_applied, kv_applied,
                   resumed>>

(***************************************************************************)
(* The ends of the task and the start of the process.                      *)
(***************************************************************************)
\* the positions with an awaited call that can return Err
Fallible ==
    {"new_epoch_stake", "new_epoch_delegate", "new_epoch_kv", "stake_total",
     "stake_row", "stake_smt", "stake_build", "delegate_item", "delegate_total",
     "delegate_row", "delegate_smt", "delegate_build"}

\* an awaited call of a handler returns Err: `?` returns it from parse_block
HandlerFails ==
    /\ \/ pc \in Fallible
       \/ pc = "dispatch" /\ Classify(CurTx) \in {"stake", "delegate"}
    /\ TaskEnds("failed")
    /\ UNCHANGED <<chain, storeVars, current_epoch, item_idx, delegate_status,
                   delta_u64, tip, restarts, handed, handled, smt_applied, kv_applied, resumed>>

\* original - amount underflows in a build with overflow checks
ArithmeticPanics ==
    /\ \/ /\ pc = "dispatch"
          /\ Classify(CurTx) = "stake"
          /\ Underflows(SmtGetAmount(stake_smt, current_epoch, StakeCell.data.stake_addr),
                        StakeCell.data.delta)
       \/ /\ pc = "delegate_item"
          /\ item_idx <= Len(DelegateCell.data.delegator_infos)
          /\ Underflows(SmtGetAmount(delegate_smt, current_epoch,
                            DelegateLeaf(CurItem.staker, DelegateCell.data.delegator_addr)),
                        Delta(CurItem.is_increase, CurItem.amount))
    /\ TaskEnds("failed")
    /\ UNCHANGED <<chain, storeVars, current_epoch, item_idx, delegate_status,
                   delta_u64, tip, restarts, handed, handled, smt_applied, kv_applied, resumed>>

\* the process dies at a suspension point of the task
Crash ==
    /\ pc \notin {"idle", "failed", "down"}
    /\ TaskEnds("down")
    /\ UNCHANGED <<chain, storeVars, current_epoch, item_idx, delegate_status,
                   delta_u64, tip, restarts, handed, handled, smt_applied, kv_applied, resumed>>

\* main: current_epoch from the KV store (main.rs:46), Synchronization::new:
\* current_number from the history (lib.rs:70-74), then run
Restart ==
    /\ pc \in {"failed", "down"}
    /\ restarts < MaxRestarts
    /\ restarts' = restarts + 1
    /\ current_epoch' = GetCurrentEpoch(kv_stake)
    /\ current_number' =
          IF GetLatestBlockNumber(history) = None THEN START_NUMBER
          ELSE GetLatestBlockNumber(history)
    /\ pc' = "loop"
    /\ tx_idx' = 1
    /\ item_idx' = 1
    /\ delegate_status' = EmptyMap
    /\ delta_u64' = 0
    /\ tip' = NoTip
    /\ handed' = <<>>
    /\ handled' = <<>>
    /\ resumed' = [number |-> current_number',
                   from_history |-> GetLatestBlockNumber(history) # None,
                   done |-> current_number' \in completed,
                   keys |-> HistoryKeys(history),
                   total_amount |-> total_amount,
                   stake_smt |-> stake_smt,
                   delegate_smt |-> delegate_smt]
    /\ UNCHANGED <<chain, storeVars, smt_applied, kv_applied, completed>>

(***************************************************************************)
(* RelationDB (storage/src/relation_db/mod.rs) called on its own: the      *)
(* awaited statements of insert_history, redeem_stake_amount and           *)
(* redeem_delegate_amount, each of which can return Err.                   *)
(***************************************************************************)
MaxCalls == 2

DbAddresses == {"A", "B"}

DbAmounts == {1, 2}

\* the operation codes of a record: stake, delegate, reward and one that
\* takes the `_` arm
DbOperations == {0, 1, 2, 3}

NoCall == [fn |-> "none"]

RedeemStakeAmountOnly(row, amount) ==
    [row EXCEPT !.stake_amount = @ - amount]

\* redeem_stake_amount: the row it updates
RedeemStakeAmount(row, amount) ==
    [row EXCEPT !.stake_amount = @ - amount, !.withdrawable_amount = @ + amount]

\* redeem_delegate_amount: the row it updates
RedeemDelegateAmount(row, amount) ==
    [row EXCEPT !.delegate_amount = @ - amount, !.withdrawable_amount = @ + amount]

\* the row the redeem functions insert for an address without one
RedeemNewRow(amount) == [NewTotalAmount EXCEPT !.withdrawable_amount = amount]

DbInit ==
    /\ db_total = EmptyMap
    /\ db_history = <<>>
    /\ db_pc = "idle"
    /\ db_call = NoCall
    /\ db_result = "none"
    /\ db_rows = <<>>
    /\ db_before = [total |-> EmptyMap, history |-> <<>>]
    /\ db_calls = 0

DbIdle ==
    /\ db_total = EmptyMap
    /\ db_history = <<>>
    /\ db_pc = "off"
    /\ db_call = NoCall
    /\ db_result = "none"
    /\ db_rows = <<>>
    /\ db_before = [total |-> EmptyMap, history |-> <<>>]
    /\ db_calls = 0

DbStart(call, p) ==
    /\ db_pc = "idle"
    /\ db_calls < MaxCalls
    /\ db_call' = call
    /\ db_pc' = p
    /\ db_result' = "none"
    /\ db_rows' = <<>>
    /\ db_before' = [total |-> db_total, history |-> db_history]
    /\ db_calls' = db_calls + 1
    /\ UNCHANGED <<db_total, db_history>>

DbReturns(result) ==
    /\ db_pc' = "returned"
    /\ db_result' = result
    /\ UNCHANGED <<db_call, db_rows, db_before, db_calls>>

\* insert_history is called with a record
DbCallInsertHistory ==
    \E address \in DbAddresses, operation \in DbOperations, amount \in DbAmounts :
        DbStart([fn |-> "insert_history", address |-> address,
                 operation |-> operation, amount |-> amount], "history_total")

\* redeem_stake_amount or redeem_delegate_amount is called and get_status
\* answers
DbCallRedeem ==
    \E fn \in {"redeem_stake_amount", "redeem_delegate_amount"},
       address \in DbAddresses, amount \in DbAmounts :
        DbStart([fn |-> fn, address |-> address, amount |-> amount],
                IF address \in DOMAIN db_total THEN "redeem_update" ELSE "redeem_insert")

\* insert_history: the insert or the update of the total_amount row
DbInsertHistoryTotal ==
    /\ db_pc = "history_total"
    /\ db_total' = InsertHistoryTotal(db_total, db_call.address, db_call.operation,
                                      db_call.amount)
    /\ db_pc' = "history_row"
    /\ UNCHANGED <<db_history, db_call, db_result, db_rows, db_before, db_calls>>

\* insert_history: the insert of the record, and Ok(())
DbInsertHistoryRow ==
    /\ db_pc = "history_row"
    /\ db_history' = InsertHistoryRow(db_history,
            HistoryModel(GetId(db_history) + 1, [hash |-> <<0, db_calls>>], 0,
                         db_call.address, db_call.amount, db_call.operation,
                         HistoryEventRedeem, 0))
    /\ DbReturns("Ok")
    /\ UNCHANGED db_total

\* redeem_*: status.is_none(), the row is inserted
DbRedeemInsertMissing ==
    /\ db_pc = "redeem_insert"
    /\ db_total' = MapInsert(db_total, db_call.address, RedeemNewRow(db_call.amount))
    /\ db_pc' = "redeem_unwrap"
    /\ UNCHANGED <<db_history, db_call, db_result, db_rows, db_before, db_calls>>

\* redeem_*: status.unwrap() on the None that get_status answered
DbRedeemUnwrapPanics ==
    /\ db_pc = "redeem_unwrap"
    /\ DbReturns("panic")
    /\ UNCHANGED <<db_total, db_history>>

\* redeem_*: the update of the row that get_status answered
DbRedeemUpdate ==
    /\ db_pc = "redeem_update"
    /\ db_total' = MapInsert(db_total, db_call.address,
            IF db_call.fn = "redeem_stake_amount"
            THEN RedeemStakeAmount(db_total[db_call.address], db_call.amount)
            ELSE RedeemDelegateAmount(db_total[db_call.address], db_call.amount))
    /\ DbReturns("Ok")
    /\ UNCHANGED db_history

\* the awaited statement the call is at returns Err and `?` returns it
DbStatementFails ==
    /\ db_pc \in {"history_total", "history_row", "redeem_insert", "redeem_update",
                  "query"}
    /\ DbReturns("Err")
    /\ UNCHANGED <<db_total, db_history>>

\* cursor_by(Id), after(lower), before(upper), all: the rows with
\* lower < id < upper in ascending order of id (the rows of the table are in
\* that order: every insert takes the id get_id() + 1)
CursorAll(rows, lower, upper) ==
    LET InWindow(r) == lower < r.id /\ r.id < upper
    IN SelectSeq(rows, InWindow)

\* the filters of the three paginated queries
QueryFilter(call, rows) ==
    LET Matches(r) ==
            CASE call.fn = "get_records_by_address" -> r.address = call.address
              [] call.fn = "get_operation_history" ->
                    /\ r.address = call.address
                    /\ r.operation = call.operation
                    /\ call.event.some => r.event = call.event.value
              [] call.fn = "get_stake_amount_by_epoch" -> r.operation = call.operation
    IN SelectSeq(rows, Matches)

QueryOffsets == {0, 1}

QueryLimits == {1, 2}

QueryEvents ==
    {[some |-> FALSE, value |-> 0], [some |-> TRUE, value |-> HistoryEventRedeem]}

\* one of the paginated queries is called
DbCallQuery ==
    \E address \in DbAddresses, operation \in {0, 1}, event \in QueryEvents,
       offset \in QueryOffsets, limit \in QueryLimits :
        \/ DbStart([fn |-> "get_records_by_address", address |-> address,
                    offset |-> offset, limit |-> limit], "query")
        \/ DbStart([fn |-> "get_operation_history", address |-> address,
                    operation |-> operation, event |-> event,
                    offset |-> offset, limit |-> limit], "query")
        \/ DbStart([fn |-> "get_stake_amount_by_epoch", operation |-> operation,
                    offset |-> offset, limit |-> limit], "query")

\* cursor.all answers Ok(records)
DbQueryAnswers ==
    /\ db_pc = "query"
    /\ db_rows' = CursorAll(QueryFilter(db_call, db_history), db_call.offset,
                            db_call.offset + db_call.limit)
    /\ db_pc' = "returned"
    /\ db_result' = "Ok"
    /\ UNCHANGED <<db_total, db_history, db_call, db_before, db_calls>>

\* the caller goes on to its next call
DbNextCall ==
    /\ db_pc = "returned"
    /\ db_pc' = "idle"
    /\ UNCHANGED <<db_total, db_history, db_call, db_result, db_rows, db_before, db_calls>>

(***************************************************************************)
(* The RPC server beside the sync task.  Both hold the same AtomicU64      *)
(* (main.rs:46): stake and unstake read it to stamp the item they build    *)
(* (operation.rs:45-89), handle_new_epoch swaps it and then records it in  *)
(* the KVDB (lib.rs:157-163), and a start of the process loads it from the *)
(* KVDB again.  An item built by the RPC server becomes a stake cell on    *)
(* the chain; an aggregation run is given a batch of these cells and folds *)
(* the ones that are not stale into the leaves of current_epoch +          *)
(* INAUGURATION (stake_smt.rs:278-304).                                    *)
(***************************************************************************)
MaxRaceEpoch == 2
MaxRaceItems == 3

RaceAmounts == {1}

StakeItem(is_increase, amount, inauguration_epoch) ==
    [is_increase |-> is_increase, amount |-> amount,
     inauguration_epoch |-> inauguration_epoch]

RaceIdle ==
    /\ rc_current_epoch = 0
    /\ rc_kv_epoch = 0
    /\ rc_pc = "idle"
    /\ rc_items = {}
    /\ rc_folded = {}
    /\ rc_restarts = 0

\* main.rs:46: the atomic starts as the epoch the KVDB holds
RaceInit ==
    /\ rc_kv_epoch \in {0, 1}
    /\ rc_current_epoch = rc_kv_epoch
    /\ rc_pc = "run"
    /\ rc_items = {}
    /\ rc_folded = {}
    /\ rc_restarts = 0

\* operation.rs:45-66, stake
RpcStake ==
    /\ Cardinality(rc_items) < MaxRaceItems
    /\ \E amount \in RaceAmounts :
         LET current_epoch_read == rc_current_epoch
             stake_item == StakeItem(TRUE, amount, current_epoch_read + 2)
         IN rc_items' = rc_items \cup {stake_item}
    /\ UNCHANGED <<rc_current_epoch, rc_kv_epoch, rc_pc, rc_folded, rc_restarts>>

\* operation.rs:68-89, unstake
RpcUnstake ==
    /\ Cardinality(rc_items) < MaxRaceItems
    /\ \E amount \in RaceAmounts :
         LET current_epoch_read == rc_current_epoch
             stake_item == StakeItem(FALSE, amount, current_epoch_read + 2)
         IN rc_items' = rc_items \cup {stake_item}
    /\ UNCHANGED <<rc_current_epoch, rc_kv_epoch, rc_pc, rc_folded, rc_restarts>>

\* lib.rs:158: the swap of handle_new_epoch, to the epoch of the metadata cell
RolloverSwap ==
    /\ rc_pc = "run"
    /\ \E epoch \in (rc_current_epoch + 1)..MaxRaceEpoch :
         rc_current_epoch' = epoch
    /\ rc_pc' = "swapped"
    /\ UNCHANGED <<rc_kv_epoch, rc_items, rc_folded, rc_restarts>>

\* lib.rs:159-162: the two new_epoch calls and insert_current_epoch succeed
RolloverKv ==
    /\ rc_pc = "swapped"
    /\ rc_kv_epoch' = rc_current_epoch
    /\ rc_pc' = "run"
    /\ UNCHANGED <<rc_current_epoch, rc_items, rc_folded, rc_restarts>>

\* lib.rs:159-161: one of the three calls returns Err; the sync task ends at
\* the unwrap of lib.rs:113 while the RPC server goes on
RolloverFails ==
    /\ rc_pc = "swapped"
    /\ rc_pc' = "failed"
    /\ UNCHANGED <<rc_current_epoch, rc_kv_epoch, rc_items, rc_folded, rc_restarts>>

\* main.rs:46: the process is started again
RaceRestart ==
    /\ rc_pc = "failed"
    /\ rc_restarts < MaxRestarts
    /\ rc_restarts' = rc_restarts + 1
    /\ rc_current_epoch' = rc_kv_epoch
    /\ rc_pc' = "run"
    /\ UNCHANGED <<rc_kv_epoch, rc_items, rc_folded>>

\* the working epoch of a run and the cells it takes (stake_smt.rs:279-281,
\* 300-304)
WorkingEpoch(epoch) == epoch + INAUGURATION

TakenOf(batch, epoch) == { cell \in batch : ~IsStale(cell, epoch) }

\* lib.rs:293, 336-346 and stake_smt.rs:278-304: a run of the builder with
\* the epoch the sync task loaded, over a batch of the stake cells
AggregationRun ==
    /\ rc_pc = "run"
    /\ \E batch \in SUBSET rc_items :
         /\ batch # {}
         /\ LET epoch == rc_current_epoch
                taken == TakenOf(batch, epoch)
            IN /\ rc_folded' = rc_folded \cup
                     { [item |-> cell, working |-> WorkingEpoch(epoch)] : cell \in taken }
               /\ rc_items' = rc_items \ taken
    /\ UNCHANGED <<rc_current_epoch, rc_kv_epoch, rc_pc, rc_restarts>>

(***************************************************************************)
(* The specifications.                                                     *)
(***************************************************************************)
vars == <<deltaVars, builderVars, syncVars, classVars, dbVars, raceVars>>

InitDelta == DeltaInit /\ BuilderIdle /\ SyncIdle /\ ClassifyIdle /\ DbIdle /\ RaceIdle

NextDelta ==
    \/ ApplySub /\ UNCHANGED <<builderVars, syncVars, classVars, dbVars, raceVars>>
    \/ ApplyDeltaCodec /\ UNCHANGED <<builderVars, syncVars, classVars, dbVars, raceVars>>
    \/ ApplyDeltaDecode /\ UNCHANGED <<builderVars, syncVars, classVars, dbVars, raceVars>>
    \/ ApplyDelegateDeltasCodec /\ UNCHANGED <<builderVars, syncVars, classVars, dbVars, raceVars>>

SpecDelta == InitDelta /\ [][NextDelta]_vars

InitAgg == DeltaIdle /\ BuilderInit /\ SyncIdle /\ ClassifyIdle /\ DbIdle /\ RaceIdle

NextAgg ==
    \/ BuildStart /\ UNCHANGED <<deltaVars, syncVars, classVars, dbVars, raceVars>>
    \/ BuildStartFails /\ UNCHANGED <<deltaVars, syncVars, classVars, dbVars, raceVars>>
    \/ FoldCandidate /\ UNCHANGED <<deltaVars, syncVars, classVars, dbVars, raceVars>>
    \/ CollectNonTopStakers /\ UNCHANGED <<deltaVars, syncVars, classVars, dbVars, raceVars>>
    \/ AfterEviction /\ UNCHANGED <<deltaVars, syncVars, classVars, dbVars, raceVars>>
    \/ FetchFails /\ UNCHANGED <<deltaVars, syncVars, classVars, dbVars, raceVars>>
    \/ UpdateStakeSmt /\ UNCHANGED <<deltaVars, syncVars, classVars, dbVars, raceVars>>
    \/ UpdateStakeSmtFails /\ UNCHANGED <<deltaVars, syncVars, classVars, dbVars, raceVars>>
    \/ FillTxAction /\ UNCHANGED <<deltaVars, syncVars, classVars, dbVars, raceVars>>
    \/ WithdrawCellMissing /\ UNCHANGED <<deltaVars, syncVars, classVars, dbVars, raceVars>>
    \/ BalanceAndSign /\ UNCHANGED <<deltaVars, syncVars, classVars, dbVars, raceVars>>
    \/ BalanceFails /\ UNCHANGED <<deltaVars, syncVars, classVars, dbVars, raceVars>>

SpecAgg == InitAgg /\ [][NextAgg]_vars

Init == DeltaIdle /\ BuilderIdle /\ SyncInit /\ ClassifyIdle /\ DbIdle /\ RaceIdle

Next ==
    \/ ReadTip /\ UNCHANGED <<deltaVars, builderVars, classVars, dbVars, raceVars>>
    \/ Sleep /\ UNCHANGED <<deltaVars, builderVars, classVars, dbVars, raceVars>>
    \/ TipUnderflowPanics /\ UNCHANGED <<deltaVars, builderVars, classVars, dbVars, raceVars>>
    \/ FetchBlock /\ UNCHANGED <<deltaVars, builderVars, classVars, dbVars, raceVars>>
    \/ BlockMissingPanics /\ UNCHANGED <<deltaVars, builderVars, classVars, dbVars, raceVars>>
    \/ RpcFails /\ UNCHANGED <<deltaVars, builderVars, classVars, dbVars, raceVars>>
    \/ SkipTx /\ UNCHANGED <<deltaVars, builderVars, classVars, dbVars, raceVars>>
    \/ NewEpochSwap /\ UNCHANGED <<deltaVars, builderVars, classVars, dbVars, raceVars>>
    \/ NewEpochStakeSmt /\ UNCHANGED <<deltaVars, builderVars, classVars, dbVars, raceVars>>
    \/ NewEpochDelegateSmt /\ UNCHANGED <<deltaVars, builderVars, classVars, dbVars, raceVars>>
    \/ NewEpochKv /\ UNCHANGED <<deltaVars, builderVars, classVars, dbVars, raceVars>>
    \/ StakeBegin /\ UNCHANGED <<deltaVars, builderVars, classVars, dbVars, raceVars>>
    \/ StakeInsertTotal /\ UNCHANGED <<deltaVars, builderVars, classVars, dbVars, raceVars>>
    \/ StakeInsertRow /\ UNCHANGED <<deltaVars, builderVars, classVars, dbVars, raceVars>>
    \/ StakeSmtInsert /\ UNCHANGED <<deltaVars, builderVars, classVars, dbVars, raceVars>>
    \/ StakeBuildTx /\ UNCHANGED <<deltaVars, builderVars, classVars, dbVars, raceVars>>
    \/ StakeBuildTxFailsLate /\ UNCHANGED <<deltaVars, builderVars, classVars, dbVars, raceVars>>
    \/ DelegateLoadStatus /\ UNCHANGED <<deltaVars, builderVars, classVars, dbVars, raceVars>>
    \/ DelegateItemBegin /\ UNCHANGED <<deltaVars, builderVars, classVars, dbVars, raceVars>>
    \/ DelegateInsertTotal /\ UNCHANGED <<deltaVars, builderVars, classVars, dbVars, raceVars>>
    \/ DelegateInsertRow /\ UNCHANGED <<deltaVars, builderVars, classVars, dbVars, raceVars>>
    \/ DelegateSmtInsert /\ UNCHANGED <<deltaVars, builderVars, classVars, dbVars, raceVars>>
    \/ DelegateKvInsert /\ UNCHANGED <<deltaVars, builderVars, classVars, dbVars, raceVars>>
    \/ DelegateBuildTx /\ UNCHANGED <<deltaVars, builderVars, classVars, dbVars, raceVars>>
    \/ DelegateBuildTxFailsLate /\ UNCHANGED <<deltaVars, builderVars, classVars, dbVars, raceVars>>
    \/ HandlerFails /\ UNCHANGED <<deltaVars, builderVars, classVars, dbVars, raceVars>>
    \/ ArithmeticPanics /\ UNCHANGED <<deltaVars, builderVars, classVars, dbVars, raceVars>>
    \/ Crash /\ UNCHANGED <<deltaVars, builderVars, classVars, dbVars, raceVars>>
    \/ Restart /\ UNCHANGED <<deltaVars, builderVars, classVars, dbVars, raceVars>>

Spec == Init /\ [][Next]_vars

(***************************************************************************)
(* The sync task on its own, for progress.  NextLive is Next without the   *)
(* steps in which a handler returns Err or panics and without the crash    *)
(* and the new start of the process: what is left is the loop of run with  *)
(* its two RPC calls, the panics of run itself and the handlers when every *)
(* call of theirs succeeds.  The task is scheduled as long as it has a     *)
(* step to take (weak fairness of its steps); the tip the indexer answers  *)
(* with gets past every block number plus the lag, and a call that keeps   *)
(* being made succeeds (strong fairness of the read of such a tip and of   *)
(* the answer of get_block_by_number).                                     *)
(***************************************************************************)
NextLive ==
    \/ ReadTip /\ UNCHANGED <<deltaVars, builderVars, classVars, dbVars, raceVars>>
    \/ Sleep /\ UNCHANGED <<deltaVars, builderVars, classVars, dbVars, raceVars>>
    \/ TipUnderflowPanics /\ UNCHANGED <<deltaVars, builderVars, classVars, dbVars, raceVars>>
    \/ FetchBlock /\ UNCHANGED <<deltaVars, builderVars, classVars, dbVars, raceVars>>
    \/ BlockMissingPanics /\ UNCHANGED <<deltaVars, builderVars, classVars, dbVars, raceVars>>
    \/ RpcFails /\ UNCHANGED <<deltaVars, builderVars, classVars, dbVars, raceVars>>
    \/ SkipTx /\ UNCHANGED <<deltaVars, builderVars, classVars, dbVars, raceVars>>
    \/ NewEpochSwap /\ UNCHANGED <<deltaVars, builderVars, classVars, dbVars, raceVars>>
    \/ NewEpochStakeSmt /\ UNCHANGED <<deltaVars, builderVars, classVars, dbVars, raceVars>>
    \/ NewEpochDelegateSmt /\ UNCHANGED <<deltaVars, builderVars, classVars, dbVars, raceVars>>
    \/ NewEpochKv /\ UNCHANGED <<deltaVars, builderVars, classVars, dbVars, raceVars>>
    \/ StakeBegin /\ UNCHANGED <<deltaVars, builderVars, classVars, dbVars, raceVars>>
    \/ StakeInsertTotal /\ UNCHANGED <<deltaVars, builderVars, classVars, dbVars, raceVars>>
    \/ StakeInsertRow /\ UNCHANGED <<deltaVars, builderVars, classVars, dbVars, raceVars>>
    \/ StakeSmtInsert /\ UNCHANGED <<deltaVars, builderVars, classVars, dbVars, raceVars>>
    \/ StakeBuildTx /\ UNCHANGED <<deltaVars, builderVars, classVars, dbVars, raceVars>>
    \/ DelegateLoadStatus /\ UNCHANGED <<deltaVars, builderVars, classVars, dbVars, raceVars>>
    \/ DelegateItemBegin /\ UNCHANGED <<deltaVars, builderVars, classVars, dbVars, raceVars>>
    \/ DelegateInsertTotal /\ UNCHANGED <<deltaVars, builderVars, classVars, dbVars, raceVars>>
    \/ DelegateInsertRow /\ UNCHANGED <<deltaVars, builderVars, classVars, dbVars, raceVars>>
    \/ DelegateSmtInsert /\ UNCHANGED <<deltaVars, builderVars, classVars, dbVars, raceVars>>
    \/ DelegateKvInsert /\ UNCHANGED <<deltaVars, builderVars, classVars, dbVars, raceVars>>
    \/ DelegateBuildTx /\ UNCHANGED <<deltaVars, builderVars, classVars, dbVars, raceVars>>

\* get_indexer_tip answers with a tip that has passed current_number + LAG
ReadTipGrown ==
    /\ ReadTip
    /\ ~TipMinusLagOverflows(tip')
    /\ LagPassed(tip', current_number)
    /\ UNCHANGED <<deltaVars, builderVars, classVars, dbVars, raceVars>>

\* get_block_by_number answers with the block
BlockAnswered ==
    FetchBlock /\ UNCHANGED <<deltaVars, builderVars, classVars, dbVars, raceVars>>

\* a step of the task other than the Err branch of match_err!
TaskStep ==
    /\ \/ ReadTip \/ Sleep \/ TipUnderflowPanics \/ FetchBlock \/ BlockMissingPanics
       \/ SkipTx \/ NewEpochSwap \/ NewEpochStakeSmt \/ NewEpochDelegateSmt \/ NewEpochKv
       \/ StakeBegin \/ StakeInsertTotal \/ StakeInsertRow \/ StakeSmtInsert \/ StakeBuildTx
       \/ DelegateLoadStatus \/ DelegateItemBegin \/ DelegateInsertTotal
       \/ DelegateInsertRow \/ DelegateSmtInsert \/ DelegateKvInsert \/ DelegateBuildTx
    /\ UNCHANGED <<deltaVars, builderVars, classVars, dbVars, raceVars>>

SpecLive ==
    /\ Init
    /\ [][NextLive]_vars
    /\ WF_vars(TaskStep)
    /\ SF_vars(ReadTipGrown)
    /\ SF_vars(BlockAnswered)

InitClassify == DeltaIdle /\ BuilderIdle /\ SyncIdle /\ ClassifyInit /\ DbIdle /\ RaceIdle

NextClassify ==
    \/ ApplyClassify /\ UNCHANGED <<deltaVars, builderVars, syncVars, dbVars, raceVars>>

SpecClassify == InitClassify /\ [][NextClassify]_vars

InitDb == DeltaIdle /\ BuilderIdle /\ SyncIdle /\ ClassifyIdle /\ DbInit /\ RaceIdle

NextDb ==
    \/ DbCallInsertHistory /\ UNCHANGED <<deltaVars, builderVars, syncVars, classVars, raceVars>>
    \/ DbCallRedeem /\ UNCHANGED <<deltaVars, builderVars, syncVars, classVars, raceVars>>
    \/ DbInsertHistoryTotal /\ UNCHANGED <<deltaVars, builderVars, syncVars, classVars, raceVars>>
    \/ DbInsertHistoryRow /\ UNCHANGED <<deltaVars, builderVars, syncVars, classVars, raceVars>>
    \/ DbRedeemInsertMissing /\ UNCHANGED <<deltaVars, builderVars, syncVars, classVars, raceVars>>
    \/ DbRedeemUnwrapPanics /\ UNCHANGED <<deltaVars, builderVars, syncVars, classVars, raceVars>>
    \/ DbRedeemUpdate /\ UNCHANGED <<deltaVars, builderVars, syncVars, classVars, raceVars>>
    \/ DbStatementFails /\ UNCHANGED <<deltaVars, builderVars, syncVars, classVars, raceVars>>
    \/ DbCallQuery /\ UNCHANGED <<deltaVars, builderVars, syncVars, classVars, raceVars>>
    \/ DbQueryAnswers /\ UNCHANGED <<deltaVars, builderVars, syncVars, classVars, raceVars>>
    \/ DbNextCall /\ UNCHANGED <<deltaVars, builderVars, syncVars, classVars, raceVars>>

SpecDb == InitDb /\ [][NextDb]_vars

InitRace == DeltaIdle /\ BuilderIdle /\ SyncIdle /\ ClassifyIdle /\ DbIdle /\ RaceInit

NextRace ==
    \/ RpcStake /\ UNCHANGED <<deltaVars, builderVars, syncVars, classVars, dbVars>>
    \/ RpcUnstake /\ UNCHANGED <<deltaVars, builderVars, syncVars, classVars, dbVars>>
    \/ RolloverSwap /\ UNCHANGED <<deltaVars, builderVars, syncVars, classVars, dbVars>>
    \/ RolloverKv /\ UNCHANGED <<deltaVars, builderVars, syncVars, classVars, dbVars>>
    \/ RolloverFails /\ UNCHANGED <<deltaVars, builderVars, syncVars, classVars, dbVars>>
    \/ RaceRestart /\ UNCHANGED <<deltaVars, builderVars, syncVars, classVars, dbVars>>
    \/ AggregationRun /\ UNCHANGED <<deltaVars, builderVars, syncVars, classVars, dbVars>>

SpecRace == InitRace /\ [][NextRace]_vars

(***************************************************************************)
(* Claims about delta.rs, checked under SpecDelta.                         *)
(***************************************************************************)

\* C8: Delta::sub is signed subtraction: for all Deltas a and b (no overflow),
\* signed(a.sub(b)) = signed(a) - signed(b), also when a and b have the same
\* direction.
C8_SubIsSignedSubtraction ==
    dl_out.op = "sub" =>
        Signed(dl_out.out) = Signed(dl_in.a) - Signed(dl_in.b)

\* what Delta::sub computes instead: the signed sum of its operands
C8_SubIsSignedSum ==
    dl_out.op = "sub" =>
        Signed(dl_out.out) = Signed(dl_in.a) + Signed(dl_in.b)

\* C9: Delta codec round-trip: decode(encode(d)) succeeds and equals d; the
\* encoding is exactly 17 bytes, byte 0 is 0 for an increase and 1 for a
\* decrease, followed by the 16-byte little-endian amount; decode returns an
\* error for every input whose length is not 17.
C9_DeltaCodecRoundTrip ==
    /\ dl_out.op = "delta_codec" =>
        LET e == dl_out.encoded
        IN /\ dl_out.decoded = Ok(dl_in.d)
           /\ Len(e) = 17
           /\ e[1] = (IF dl_in.d.is_increase THEN 0 ELSE 1)
           /\ \A i \in 2..17 : e[i] \in 0..255
           /\ e[2] + 256 * e[3] + 65536 * e[4] + 16777216 * e[5] = dl_in.d.amount
           /\ \A i \in 6..17 : e[i] = 0
    /\ dl_out.op = "delta_decode" =>
        /\ Len(dl_in.raw) # 17 => dl_out.decoded = Err
        /\ Len(dl_in.raw) = 17 => dl_out.decoded.ok

C9_Witness ==
    /\ dl_out.op = "delta_codec"
    /\ dl_in.d = Delta(FALSE, 65536)
    /\ dl_out.decoded = Ok(dl_in.d)

\* C10: DelegateDeltas codec round-trip: decode(encode(m)) = m, the encoded
\* length is 4 + 37 * |m|, and the entries are emitted in ascending staker-key
\* order.
C10_DelegateDeltasRoundTrip ==
    dl_out.op = "map_codec" =>
        LET e == dl_out.encoded
            n == Cardinality(DOMAIN dl_in.inner)
            key(i) == Slice(e, 4 + 37 * i, 4 + 37 * i + 20)
        IN /\ dl_out.decoded = Ok(dl_in.inner)
           /\ Len(e) = 4 + 37 * n
           /\ {key(i) : i \in 0..(n - 1)} = DOMAIN dl_in.inner
           /\ \A i, j \in 0..(n - 1) : i < j => BytesLess(key(i), key(j))

C10_Witness ==
    /\ dl_out.op = "map_codec"
    /\ Cardinality(DOMAIN dl_in.inner) = 3
    /\ dl_out.decoded = Ok(dl_in.inner)

(***************************************************************************)
(* Claims about StakeSmtTxBuilder, checked under SpecAgg.                  *)
(***************************************************************************)

\* C1: Aggregation top-K: after the eviction step of build_tx
\* (collect_non_top_stakers) new_smt has at most 3 * quorum entries, and every
\* evicted staker's folded amount is less than or equal to the amount of every
\* staker that remains in new_smt.
C1_TopK ==
    [][ (bpc = "fold" /\ bpc' = "evicted") =>
          /\ Cardinality(DOMAIN new_smt') <= 3 * quorum
          /\ DOMAIN non_top_stakers' = DOMAIN new_smt \ DOMAIN new_smt'
          /\ \A s \in DOMAIN new_smt' : new_smt'[s] = new_smt[s]
          /\ \A e \in DOMAIN non_top_stakers' : \A r \in DOMAIN new_smt' :
                new_smt[e] <= new_smt'[r] ]_vars

\* two stakers were evicted and three remain, one of them above an evicted one
C1_Witness ==
    /\ bpc = "evicted"
    /\ quorum = 1
    /\ Cardinality(DOMAIN non_top_stakers) = 2
    /\ Cardinality(DOMAIN new_smt) = 3
    /\ \E r \in DOMAIN new_smt : new_smt[r] > 1

RECURSIVE SumAmounts(_)
SumAmounts(cells) ==
    IF cells = <<>> THEN 0 ELSE Head(cells).amount + SumAmounts(Tail(cells))

OfKind(cells, kind) == SelectSeq(cells, LAMBDA c : c.kind = kind)

WithdrawOf(staker) ==
    IF staker \in DOMAIN withdraw_amounts THEN withdraw_amounts[staker] ELSE 0

AtDecreaseOfExisting ==
    /\ bpc = "fold"
    /\ cell_idx <= Len(stake_cells)
    /\ ~IsStale(stake_cells[cell_idx], BuilderEpoch)
    /\ ~stake_cells[cell_idx].is_increase
    /\ stake_cells[cell_idx].staker \in DOMAIN new_smt

\* C3: No underflow escapes: in the fold of collect, a candidate of an existing
\* staker whose decrease exceeds the staker's current leaf yields
\* withdraw_amounts[staker] equal to exactly the leaf value; the leaf never
\* becomes negative and the recorded withdraw amount never exceeds the leaf.
C3_NoUnderflow ==
    [][ AtDecreaseOfExisting =>
          LET c == stake_cells[cell_idx]
              leaf == new_smt[c.staker]
          IN /\ c.staker \in DOMAIN withdraw_amounts'
             /\ c.amount > leaf => withdraw_amounts'[c.staker] = leaf
             /\ withdraw_amounts'[c.staker] <= leaf
             /\ \A s \in DOMAIN new_smt' : new_smt'[s] >= 0 ]_vars

\* the first candidate asked for 2 of a leaf of 1 and 1 was recorded
C3_Witness ==
    /\ bpc = "fold"
    /\ cell_idx = 2
    /\ ~stake_cells[1].is_increase
    /\ stake_cells[1].amount = 2
    /\ 1 \in DOMAIN old_smt
    /\ old_smt[1] = 1
    /\ 1 \in DOMAIN withdraw_amounts
    /\ withdraw_amounts[1] = 1

(***************************************************************************)
(* Claims about the synchroniser, checked under Spec.                      *)
(***************************************************************************)

\* C4: Epoch monotonicity: over any sequence of processed metadata
\* transactions, handler failures and process restarts, the value of
\* current_epoch observed by readers, both the in-memory atomic and the KV
\* entry, never decreases.
C4_EpochNeverDecreases ==
    [][ /\ current_epoch' >= current_epoch
        /\ GetCurrentEpoch(kv_stake') >= GetCurrentEpoch(kv_stake) ]_vars

\* the transactions the chain holds
ChainTxs ==
    UNION {{chain[n].transactions[i] : i \in 1..Len(chain[n].transactions)} :
              n \in 1..Len(chain)}

RowsOf(t) == Cardinality({i \in 1..Len(history) : history[i].tx_hash = t.hash})

\* the SMT inserts one run of the handler makes for the transaction
InsertsOf(t) ==
    IF Classify(t) = "stake" THEN 1
    ELSE Len(t.outputs[GetDelegateTxDelegateAtIndex(t)].data.delegator_infos)

Handled(t) == Classify(t) \in {"stake", "delegate"}

\* C5: History-before-mutation ordering: in handle_stake_tx and
\* handle_delegate_tx, for every processed transaction and every per-staker
\* entry of a delegate transaction, insert_history has completed before the
\* corresponding SMT insert and KV write begin: no reachable state has more
\* SMT inserts or KV writes of a transaction applied than history rows of it
\* inserted.
C5_HistoryBeforeMutation ==
    \A t \in ChainTxs : Handled(t) =>
        /\ Count(smt_applied, t.hash) <= RowsOf(t)
        /\ Count(kv_applied, t.hash) * InsertsOf(t) <= RowsOf(t)

\* a stake transaction and a two-entry delegate transaction were handled
C5_Witness ==
    /\ \E t \in ChainTxs :
          /\ Classify(t) = "stake"
          /\ Count(smt_applied, t.hash) = 1
          /\ RowsOf(t) = 1
    /\ \E t \in ChainTxs :
          /\ Classify(t) = "delegate"
          /\ Count(smt_applied, t.hash) = 2
          /\ Count(kv_applied, t.hash) = 1
          /\ RowsOf(t) = 2

\* the mutation of a transaction: its SMT inserts and, for a delegate
\* transaction, the KV write
MutationApplied(t) ==
    IF Classify(t) = "stake" THEN Count(smt_applied, t.hash) > 0
    ELSE Count(smt_applied, t.hash) > 0 /\ Count(kv_applied, t.hash) > 0

\* C6: No torn state: for any sync-processed stake or delegate transaction, in
\* every state observable after the handler returns, fails, or the process
\* crashes at a suspension point, the transaction's row exists in
\* transaction_history if and only if the matching SMT/KV mutation has been
\* applied.
C6_NoTornState ==
    pc \in {"loop", "dispatch", "failed", "down"} =>
        \A t \in ChainTxs : Handled(t) => (RowsOf(t) > 0 <=> MutationApplied(t))

\* C7: Crash-recovery idempotence: when the process restarts and the puller
\* resumes from max(history.tx_block), re-processing a block whose transactions
\* were already processed leaves the set of history records (identified by
\* (tx_hash, address, operation)), the total_amount rows and the SMT leaves
\* equal to what they were.
C7_ReprocessingIsIdempotent ==
    ( /\ restarts > 0
      /\ resumed.from_history
      /\ resumed.done
      /\ pc = "loop"
      /\ current_number = resumed.number + 1 ) =>
        /\ HistoryKeys(history) = resumed.keys
        /\ total_amount = resumed.total_amount
        /\ stake_smt = resumed.stake_smt
        /\ delegate_smt = resumed.delegate_smt

\* C11: SMT leaf tracks the stake total: after the dispatcher handles a
\* StakeUpdate transaction (an increase, or a decrease that the leaf covers),
\* the stake SMT leaf at (current_epoch, staker) equals the staker's total
\* new_total = old leaf +/- delta.amount, the amount of the history row.
C11_LeafTracksTotal ==
    [][ (pc = "stake_smt" /\ pc' = "stake_build" /\ delta_u64 >= 0) =>
          SmtGetAmount(stake_smt', current_epoch, StakeCell.data.stake_addr)
             = delta_u64 ]_vars

\* C12: Confirmation lag: every block handed to parse_block by run has a
\* number n such that the indexer tip T read in the same loop iteration
\* satisfies n + 24 < T; when that does not hold the puller sleeps and fetches
\* no block.
C12_ConfirmationLag ==
    [][ /\ (pc = "tip_read" /\ pc' = "dispatch") => current_number + LAG < tip
        /\ (pc = "tip_read" /\ ~(current_number + LAG < tip) /\ pc' # "down") =>
              (pc' = "loop" /\ handed' = handed) ]_vars

\* the value of current_number when run started in this process lifetime
LifetimeStart == IF restarts = 0 THEN START_NUMBER ELSE resumed.number

TxHashes(n) ==
    [i \in 1..Len(chain[n + 1].transactions) |-> chain[n + 1].transactions[i].hash]

RECURSIVE HashesOf(_)
HashesOf(numbers) ==
    IF numbers = <<>> THEN <<>>
    ELSE TxHashes(Head(numbers)) \o HashesOf(Tail(numbers))

IsPrefix(a, b) == Len(a) <= Len(b) /\ SubSeq(b, 1, Len(a)) = a

\* the blocks handed in this lifetime are LifetimeStart, LifetimeStart + 1, ...
\* and the transactions dispatched are those of the blocks handed, in block
\* order, all of every block but the last
SequentialOrder ==
    /\ \A i \in 1..Len(handed) : handed[i] = LifetimeStart + i - 1
    /\ handed = <<>> => handled = <<>>
    /\ handed # <<>> =>
          /\ IsPrefix(HashesOf(SubSeq(handed, 1, Len(handed) - 1)), handled)
          /\ IsPrefix(handled, HashesOf(handed))

\* C13: Strictly sequential block processing: within one process lifetime
\* blocks are handed to the dispatcher in strictly increasing consecutive
\* order of block number starting at the initial current_number, each block at
\* most once, and all transactions of block N are handled in block order and
\* their store writes completed before block N+1 is fetched; an RPC failure
\* leaves current_number unchanged.
C13_StrictlySequential ==
    [][ /\ SequentialOrder'
        /\ (Len(handed') = Len(handed) + 1) =>
              /\ pc = "tip_read"
              /\ handled = HashesOf(handed)
              /\ handed'[Len(handed')] = current_number
        /\ (pc \in {"loop", "tip_read"} /\ pc' = "loop") =>
              current_number' = current_number ]_vars

C13_Witness ==
    /\ Len(handed) = 2
    /\ Len(handled) >= 3
    /\ handled = HashesOf(handed)
    /\ pc = "loop"

\* a step in which an awaited call of a handler returns Err (positions from
\* which the handler is left with Err only, not with an arithmetic panic)
HandlerReturnsErr ==
    /\ pc \in Fallible \ {"delegate_item"}
    /\ pc' \notin Fallible \cup {"dispatch", "loop", "down"}

\* C14: Handler failure is not retried and does not stop the puller: when a
\* handler returns an error for a transaction of block N, the error is
\* logged, block N is never handed to the dispatcher again in this process
\* lifetime, and the sync loop continues with block N+1 (current_number
\* becomes N+1).
C14_FailureDoesNotStopPuller ==
    [][ /\ HandlerReturnsErr =>
              /\ pc' = "loop"
              /\ current_number' = current_number + 1
        /\ \A i \in 1..Len(handed') : \A j \in 1..Len(handed') :
              i # j => handed'[i] # handed'[j] ]_vars

(***************************************************************************)
(* Claims about the classifier, checked under SpecClassify.                *)
(***************************************************************************)

\* the patterns of the classifier's five classes, in the order of priority
HasOutput(t, type_code, type_args) ==
    \E i \in 1..Len(t.outputs) :
        t.outputs[i].type_code = type_code /\ t.outputs[i].type_args = type_args

HasAtOutput(t, lock_code) ==
    \E i \in 1..Len(t.outputs) :
        t.outputs[i].type_args = "AXON_TOKEN_ARGS" /\ t.outputs[i].lock_code = lock_code

PatternsOf(t) ==
    {c \in 1..5 :
        \/ c = 1 /\ HasOutput(t, "METADATA_CODE_HASH", "METADATA_TYPE_ID")
        \/ c = 2 /\ HasAtOutput(t, "STAKE_AT_CODE_HASH")
                 /\ HasOutput(t, "STAKE_SMT_CODE_HASH", "ISSUANCE_TYPE_ID")
        \/ c = 3 /\ HasAtOutput(t, "DELEGATE_AT_CODE_HASH")
                 /\ HasOutput(t, "DELEGATE_SMT_CODE_HASH", "ISSUANCE_TYPE_ID")
        \/ c = 4 /\ HasAtOutput(t, "STAKE_AT_CODE_HASH")
        \/ c = 5 /\ HasAtOutput(t, "DELEGATE_AT_CODE_HASH")}

\* EpochRollover 1, AggregationStake 2, AggregationDelegate 3, StakeUpdate 4,
\* DelegateUpdate 5, Ignored 6
FirstPattern(t) ==
    IF PatternsOf(t) = {} THEN 6
    ELSE CHOOSE c \in PatternsOf(t) : \A d \in PatternsOf(t) : c <= d

\* C15: Classifier priority: every transaction is classified as exactly one
\* of EpochRollover, AggregationStake, AggregationDelegate, StakeUpdate,
\* DelegateUpdate, Ignored, and when the outputs match several patterns the
\* chosen class is the first that applies in the order EpochRollover >
\* AggregationStake > AggregationDelegate > StakeUpdate > DelegateUpdate;
\* exactly one handler (or none) runs per transaction.
C15_ClassifierPriority ==
    cf_class # NoClass =>
        /\ cf_class.arm \in 1..6
        /\ cf_class.arm = FirstPattern(cf_tx)
        /\ cf_class.body = ( CASE cf_class.arm = 1 -> "new_epoch"
                               [] cf_class.arm = 4 -> "stake"
                               [] cf_class.arm = 5 -> "delegate"
                               [] OTHER -> "continue" )

\* a transaction that matches three patterns has been classified
C15_Witness ==
    /\ cf_class # NoClass
    /\ Cardinality(PatternsOf(cf_tx)) >= 3
    /\ cf_class.arm = 2

(***************************************************************************)
(* Claims about the dispatcher, checked under Spec.                        *)
(***************************************************************************)

\* C16: Aggregation and ignored transactions change nothing: processing a
\* transaction classified as AggregationStake, AggregationDelegate or Ignored
\* leaves transaction_history, total_amount, the KV stake/delegate entries,
\* the KV and in-memory current_epoch, and all three SMTs unchanged.
C16_SkippedChangeNothing ==
    [][ (pc = "dispatch" /\ FirstPattern(CurTx) \in {2, 3, 6}) =>
          /\ pc' \in {"dispatch", "loop", "down"}
          /\ history' = history
          /\ total_amount' = total_amount
          /\ kv_stake' = kv_stake
          /\ kv_delegate' = kv_delegate
          /\ current_epoch' = current_epoch
          /\ stake_smt' = stake_smt
          /\ delegate_smt' = delegate_smt
          /\ reward_smt' = reward_smt ]_vars

\* parse_block has taken its branch for a transaction of each of the three
\* classes
C16_Witness ==
    \A c \in {2, 3, 6} :
        \E t \in ChainTxs :
            /\ FirstPattern(t) = c
            /\ \E i \in 1..Len(handled) : handled[i] = t.hash

\* C17: Epoch rollover effect: after handle_new_epoch(e) returns
\* successfully, the in-memory current_epoch equals e, new_epoch(e) has been
\* invoked on the stake SMT and on the delegate SMT (and not on the reward
\* SMT), and the KV current_epoch entry is the 8-byte little-endian encoding
\* of e, so that the KV entry equals the in-memory value and the last epoch
\* observed from a metadata-cell transaction.
C17_EpochRolloverEffect ==
    [][ (pc = "new_epoch_kv" /\ pc' \in {"dispatch", "loop"}) =>
          LET e == GetMetadataCellEpoch(CurTx)
          IN /\ current_epoch' = e
             /\ e \in DOMAIN stake_smt'
             /\ e \in DOMAIN delegate_smt'
             /\ reward_smt' = reward_smt
             /\ e \notin DOMAIN reward_smt'
             /\ kv_stake'[CURRENT_EPOCH_KEY] = <<e, 0, 0, 0, 0, 0, 0, 0>>
             /\ GetCurrentEpoch(kv_stake') = current_epoch' ]_vars

\* handle_new_epoch(2) has returned Ok
C17_Witness ==
    /\ pc = "loop"
    /\ current_epoch = 2
    /\ CURRENT_EPOCH_KEY \in DOMAIN kv_stake
    /\ kv_stake[CURRENT_EPOCH_KEY] = <<2, 0, 0, 0, 0, 0, 0, 0>>
    /\ 2 \in DOMAIN stake_smt
    /\ 2 \in DOMAIN delegate_smt

\* the transactions of the chain before transaction i of block n that have a
\* metadata output, as <<block number, index>>
RolloversBefore(n, i) ==
    {q \in UNION {{<<m, j>> : j \in 1..Len(chain[m + 1].transactions)} : m \in 0..n} :
        /\ q[1] < n \/ q[2] < i
        /\ HasOutput(chain[q[1] + 1].transactions[q[2]],
                     "METADATA_CODE_HASH", "METADATA_TYPE_ID")}

\* the epoch of the last EpochRollover before transaction i of block n in
\* block order, None when there is none
PrecedingRollover(n, i) ==
    IF RolloversBefore(n, i) = {} THEN None
    ELSE LET last == CHOOSE q \in RolloversBefore(n, i) :
                        \A r \in RolloversBefore(n, i) :
                            r[1] < q[1] \/ (r[1] = q[1] /\ r[2] <= q[2])
         IN GetMetadataCellEpoch(chain[last[1] + 1].transactions[last[2]])

UpdateHandlerPositions ==
    {"stake_total", "stake_row", "stake_smt", "delegate_item", "delegate_total",
     "delegate_row", "delegate_smt"}

\* C18: Epoch marker precedes post-rollover handlers: every StakeUpdate or
\* DelegateUpdate transaction that comes after an EpochRollover(e)
\* transaction in block order (later in the same block or in a later block,
\* with no other rollover in between) is handled with epoch e: its history
\* row carries epoch e and its SMT reads and writes are at epoch e.
C18_HandledWithRolloverEpoch ==
    [][ (pc \in UpdateHandlerPositions /\ PrecedingRollover(current_number, tx_idx) # None) =>
          /\ current_epoch = PrecedingRollover(current_number, tx_idx)
          /\ Len(history') = Len(history) + 1 =>
                history'[Len(history')].epoch = PrecedingRollover(current_number, tx_idx) ]_vars

(***************************************************************************)
(* Claims about RelationDB, checked under SpecDb.                          *)
(***************************************************************************)

MovableSum(row) == row.stake_amount + row.delegate_amount + row.withdrawable_amount

RedeemReturnedOk ==
    /\ db_pc = "returned"
    /\ db_call.fn \in {"redeem_stake_amount", "redeem_delegate_amount"}
    /\ db_call.address \in DOMAIN db_before.total
    /\ db_result = "Ok"

\* C19: Total-amount conservation: for an address that already has a
\* total_amount row, redeem_stake_amount and redeem_delegate_amount leave
\* stake_amount + delegate_amount + withdrawable_amount unchanged (the amount
\* leaves stake or delegate and is added to withdrawable) and leave the reward
\* fields unchanged.
C19_RedeemConserves ==
    RedeemReturnedOk =>
        LET old == db_before.total[db_call.address]
            new == db_total[db_call.address]
        IN /\ MovableSum(new) = MovableSum(old)
           /\ new.withdrawable_amount = old.withdrawable_amount + db_call.amount
           /\ db_call.fn = "redeem_stake_amount" =>
                 /\ new.stake_amount = old.stake_amount - db_call.amount
                 /\ new.delegate_amount = old.delegate_amount
           /\ db_call.fn = "redeem_delegate_amount" =>
                 /\ new.delegate_amount = old.delegate_amount - db_call.amount
                 /\ new.stake_amount = old.stake_amount
           /\ new.reward_lock_amount = old.reward_lock_amount
           /\ new.reward_unlock_amount = old.reward_unlock_amount

\* redeem_stake_amount has returned Ok for an address with stake
C19_Witness ==
    /\ RedeemReturnedOk
    /\ db_call.fn = "redeem_stake_amount"
    /\ db_before.total[db_call.address].stake_amount > 0

\* C20: insert_history upserts the total-amount row atomically with the
\* history append: on success the address's row exists and the field selected
\* by the record's operation code (0 stake, 1 delegate, 2 reward_lock) has
\* grown by the record's amount (a new row starts at that amount, other
\* fields 0 or unchanged); if insert_history returns an error, neither the
\* history table nor the total_amount row has changed.
C20_InsertHistoryAtomic ==
    (db_pc = "returned" /\ db_call.fn = "insert_history") =>
        LET old == IF db_call.address \in DOMAIN db_before.total
                   THEN db_before.total[db_call.address] ELSE NewTotalAmount
        IN /\ db_result = "Ok" =>
                 /\ db_call.address \in DOMAIN db_total
                 /\ db_total[db_call.address] =
                       ( CASE db_call.operation = 0 ->
                                 [old EXCEPT !.stake_amount = @ + db_call.amount]
                           [] db_call.operation = 1 ->
                                 [old EXCEPT !.delegate_amount = @ + db_call.amount]
                           [] db_call.operation = 2 ->
                                 [old EXCEPT !.reward_lock_amount = @ + db_call.amount]
                           [] OTHER -> old )
                 /\ Len(db_history) = Len(db_before.history) + 1
           /\ db_result = "Err" =>
                 /\ db_history = db_before.history
                 /\ db_total = db_before.total

IsQuery ==
    db_call.fn \in {"get_records_by_address", "get_operation_history",
                    "get_stake_amount_by_epoch"}

\* C21: Pagination window: for every offset and limit, the paginated history
\* queries (get_operation_history, get_records_by_address,
\* get_stake_amount_by_epoch) return exactly the matching records whose id
\* lies in the half-open interval (offset, offset+limit], i.e. including
\* id = offset+limit, in ascending id (insertion) order.
C21_PaginationWindow ==
    (db_pc = "returned" /\ IsQuery /\ db_result = "Ok") =>
        /\ \A i \in 1..Len(db_history) :
              LET r == db_history[i]
              IN ( /\ QueryFilter(db_call, <<r>>) # <<>>
                   /\ db_call.offset < r.id
                   /\ r.id <= db_call.offset + db_call.limit )
                 <=> (\E k \in 1..Len(db_rows) : db_rows[k] = r)
        /\ \A k \in 1..Len(db_rows) : \A l \in 1..Len(db_rows) :
              k < l => db_rows[k].id < db_rows[l].id

(***************************************************************************)
(* Further claims about StakeSmtTxBuilder, checked under SpecAgg.          *)
(***************************************************************************)

\* the leaves the store held when build_tx was called: collect reads them into
\* old_smt (stake_smt.rs:279-282) before anything is written
LeavesBeforeCall == IF bpc = "start" THEN smt_leaves ELSE old_smt

\* C22: Aggregation is atomic with the off-chain SMT: when build_tx does not
\* return a transaction (a cell not found, the Increase error, a fetch, balance
\* or sign failure) the failure is returned as an error and the stake SMT store
\* is left exactly as it was before the call.
C22_AtomicWithSmt ==
    [][ (bpc' = "done" /\ build_result' # "ok") =>
          /\ build_result' \in {"rpc_error", "increase_error", "cell_not_found",
                                "smt_error"}
          /\ tx' = NoTx
          /\ smt_leaves' = LeavesBeforeCall ]_vars

\* C23: Full-withdraw branch: for a candidate of a staker already in new_smt
\* whose delta is a decrease with delta.amount >= new_smt[staker], the equality
\* case included, the fold sets withdraw_amounts[staker] to the leaf value held
\* before the candidate and leaves new_smt[staker] unchanged.
C23_FullWithdrawBranch ==
    [][ (AtDecreaseOfExisting
           /\ stake_cells[cell_idx].amount >= new_smt[stake_cells[cell_idx].staker]) =>
          LET staker == stake_cells[cell_idx].staker
          IN /\ staker \in DOMAIN withdraw_amounts'
             /\ withdraw_amounts'[staker] = new_smt[staker]
             /\ staker \in DOMAIN new_smt'
             /\ new_smt'[staker] = new_smt[staker] ]_vars

\* every candidate of the batch is stale, or the batch is empty
AllStale ==
    \A i \in DOMAIN stake_cells : IsStale(stake_cells[i], BuilderEpoch)

\* collect has read the leaves and build_tx has not failed
BuildRunning ==
    \/ bpc \in {"fold", "evicted", "commit", "fill", "balance"}
    \/ bpc = "done" /\ build_result = "ok"

\* C24: Stale or empty batch is a no-op: when every candidate cell is stale (or
\* the candidate list is empty) and the old leaf set has at most 3 * quorum
\* entries, build_tx adds no stake-AT or withdraw cell to the inputs, records
\* no withdraw amount and no non-top staker, and leaves every leaf of the
\* stake SMT store at epoch current_epoch + 2 with the value it had before the
\* call.
C24_StaleBatchNoOp ==
    (BuildRunning /\ AllStale /\ Cardinality(DOMAIN old_smt) <= 3 * quorum) =>
        /\ inputs_stake_cells = EmptyMap
        /\ withdraw_amounts = EmptyMap
        /\ non_top_stakers = EmptyMap
        /\ \A i \in 1..Len(tx.inputs) : tx.inputs[i].kind = "smt"
        /\ smt_leaves = old_smt

\* the fold is at a non-stale candidate of a staker that is not in new_smt
AtNewEntrant ==
    /\ bpc = "fold"
    /\ cell_idx <= Len(stake_cells)
    /\ ~IsStale(stake_cells[cell_idx], BuilderEpoch)
    /\ stake_cells[cell_idx].staker \notin DOMAIN new_smt

\* C25: New entrant must increase: if a non-stale candidate belongs to a staker
\* that is not in new_smt and its delta is a decrease, build_tx returns the
\* Increase error, no transaction is produced and no write to the stake SMT
\* store has been performed; if the delta is an increase, new_smt[staker]
\* becomes delta.amount.
C25_NewEntrantMustIncrease ==
    [][ AtNewEntrant =>
          LET c == stake_cells[cell_idx]
          IN IF c.is_increase
             THEN /\ bpc' = "fold"
                  /\ build_result' = "none"
                  /\ c.staker \in DOMAIN new_smt'
                  /\ new_smt'[c.staker] = c.amount
             ELSE /\ bpc' = "done"
                  /\ build_result' = "increase_error"
                  /\ tx' = NoTx
                  /\ smt_leaves' = old_smt
                  /\ smt_leaves = old_smt ]_vars

\* the new staker 4 entered with its increase of 2, and the decrease of
\* staker 1, which holds no leaf, ended the call with the Increase error
C25_Witness ==
    /\ bpc = "done"
    /\ build_result = "increase_error"
    /\ 1 \notin DOMAIN old_smt
    /\ 4 \in DOMAIN new_smt
    /\ new_smt[4] = 2
    /\ tx = NoTx
    /\ smt_leaves = old_smt

\* the number of stakers ordered before s when new_smt is sorted ascending by
\* amount with ties broken by the staker address
RankOf(smt, s) ==
    Cardinality({ t \in DOMAIN smt :
                     \/ smt[t] < smt[s]
                     \/ smt[t] = smt[s] /\ t < s })

\* the lowest n stakers of that order
LowestOf(smt, n) == { s \in DOMAIN smt : RankOf(smt, s) < n }

\* C26: Deterministic eviction with tie-break: the set of evicted stakers is a
\* function of new_smt and quorum only: the stakers are ordered ascending by
\* amount with ties broken by staker address bytes and the lowest
\* |new_smt| - 3 * quorum are evicted, also with equal amounts at the cut-off.
C26_DeterministicEviction ==
    [][ (bpc = "fold" /\ bpc' = "evicted") =>
          DOMAIN non_top_stakers'
            = LowestOf(new_smt, DeleteCount(new_smt, quorum)) ]_vars

\* the evicted stakers that hold a leaf in old_smt and have no cell among the
\* inputs when the loop of stake_smt.rs:327-351 starts
IdleEvicted ==
    { s \in DOMAIN non_top_stakers :
        s \in DOMAIN old_smt /\ s \notin DOMAIN inputs_stake_cells }

\* C27: Full eviction of an idle staker: for every evicted staker s that is in
\* old_smt and has no candidate cell in the batch, s's current stake-AT cell is
\* fetched and added to the inputs and withdraw_amounts[s] is set to
\* old_smt[s]; the eviction step changes the withdraw amount of no other
\* staker: an evicted staker that has a candidate in the batch keeps the
\* withdraw amount computed by the fold.
C27_IdleEviction ==
    [][ (bpc = "evicted" /\ bpc' = "commit") =>
          /\ \A s \in IdleEvicted :
                /\ s \in DOMAIN inputs_stake_cells'
                /\ inputs_stake_cells'[s] = LiveStakeCell(s, old_smt[s])
                /\ s \in DOMAIN withdraw_amounts'
                /\ withdraw_amounts'[s] = old_smt[s]
          /\ \A s \in Stakers \ IdleEvicted :
                /\ s \in DOMAIN withdraw_amounts' <=> s \in DOMAIN withdraw_amounts
                /\ s \in DOMAIN withdraw_amounts =>
                      withdraw_amounts'[s] = withdraw_amounts[s] ]_vars

\* the evicted stakers that hold no leaf in old_smt
EvictedEntrants == DOMAIN non_top_stakers \ DOMAIN old_smt

\* the stakers whose stake-AT or withdraw-AT cells the list holds
StakersIn(cells) ==
    { cells[i].staker : i \in { j \in 1..Len(cells) :
                                  cells[j].kind \in {"stake_at", "withdraw_at"} } }

\* C28: Evicted new entrant causes no on-chain change: for every evicted staker
\* s that is not in old_smt, non_top_stakers[s] is false, s's candidate cell is
\* removed from the input set, and the built transaction contains no stake-AT
\* input or output and no withdraw-AT input or output for s.
C28_EvictedEntrantUntouched ==
    \A s \in EvictedEntrants :
        /\ non_top_stakers[s] = FALSE
        /\ (bpc \in {"commit", "fill", "balance"} \/ build_result = "ok") =>
              s \notin DOMAIN inputs_stake_cells
        /\ s \notin StakersIn(tx.inputs)
        /\ s \notin StakersIn(tx.outputs)

\* a transaction was built from a batch with a candidate of the new staker 4,
\* who was evicted, and with the cells of two other stakers
C28_Witness ==
    /\ build_result = "ok"
    /\ 4 \in EvictedEntrants
    /\ \E i \in DOMAIN stake_cells :
         stake_cells[i].staker = 4 /\ ~IsStale(stake_cells[i], BuilderEpoch)
    /\ Cardinality(StakersIn(tx.inputs)) >= 2

\* the stakers with a leaf (an amount above 0) in the store
StoredStakers == { s \in DOMAIN smt_leaves : smt_leaves[s] > 0 }

\* C29: Off-chain commit equals the computed set: after a successful build_tx
\* the leaf set of the stake SMT store for epoch current_epoch + 2 equals the
\* final new_smt: every retained staker's stored amount equals
\* new_smt[staker], no evicted staker has a leaf, and the stored set has at
\* most 3 * quorum entries.
C29_CommitEqualsComputed ==
    build_result = "ok" =>
        /\ \A s \in DOMAIN new_smt : LeafOf(smt_leaves, s) = new_smt[s]
        /\ \A s \in DOMAIN non_top_stakers : s \notin StoredStakers
        /\ Cardinality(StoredStakers) <= 3 * quorum

\* fill_tx has run and the placeholder witness of stake_smt.rs:114 was pushed
TxAssembled == bpc = "balance" \/ build_result = "ok"

\* input 0 is the SMT cell with its witness, every stake-AT and withdraw-AT
\* input has the witness of its lock at its own index, a withdraw-AT input
\* directly follows the stake-AT input of its staker, and one placeholder
\* witness follows (sequences are 1-based: input 0 is tx.inputs[1])
Aligned(t) ==
    /\ Len(t.inputs) >= 1
    /\ t.inputs[1].kind = "smt"
    /\ Len(t.witnesses) = Len(t.inputs) + 1
    /\ t.witnesses[1] = "smt_witness"
    /\ t.witnesses[Len(t.witnesses)] = "capacity_provider"
    /\ \A i \in 2..Len(t.inputs) :
         /\ t.inputs[i].kind = "stake_at" => t.witnesses[i] = "stake_lock"
         /\ t.inputs[i].kind = "withdraw_at" =>
               /\ t.witnesses[i] = "withdraw_lock"
               /\ t.inputs[i - 1].kind = "stake_at"
               /\ t.inputs[i - 1].staker = t.inputs[i].staker
         /\ t.inputs[i].kind \in {"stake_at", "withdraw_at"}

\* the batch is one candidate that is taken and increases, and no withdraw
\* amount was recorded
OneIncreaseNoWithdrawal ==
    /\ Len(stake_cells) = 1
    /\ stake_cells[1].is_increase
    /\ ~IsStale(stake_cells[1], BuilderEpoch)
    /\ withdraw_amounts = EmptyMap

\* C30 as stated: Input/witness alignment: in the transaction assembled by
\* build_tx before balancing, input 0 is the SMT cell with the SMT witness at
\* index 0, every stake-AT input at index i has a stake-lock witness at index
\* i, every withdraw-AT input at index j has a withdraw-lock witness at index j
\* and directly follows its staker's stake-AT input, and exactly one
\* capacity-provider placeholder witness follows, so the witness count is the
\* input count plus one; with one increasing candidate and no withdrawal the
\* transaction has 2 inputs and 2 outputs.
C30_InputWitnessAlignment ==
    TxAssembled =>
        /\ Aligned(tx)
        /\ OneIncreaseNoWithdrawal =>
              Len(tx.inputs) = 2 /\ Len(tx.outputs) = 2

\* C30 amended: the alignment as stated; with one increasing candidate, no
\* withdrawal and no staker evicted the transaction has 2 inputs and 2 outputs.
C30_AlignmentNoEviction ==
    TxAssembled =>
        /\ Aligned(tx)
        /\ (OneIncreaseNoWithdrawal /\ non_top_stakers = EmptyMap) =>
              Len(tx.inputs) = 2 /\ Len(tx.outputs) = 2

\* the transaction of one increasing candidate with nobody evicted: the SMT
\* cell and the stake-AT cell, three witnesses
C30_Witness ==
    /\ bpc = "balance"
    /\ OneIncreaseNoWithdrawal
    /\ non_top_stakers = EmptyMap
    /\ Len(tx.inputs) = 2
    /\ tx.inputs[2].kind = "stake_at"
    /\ tx.witnesses = <<"smt_witness", "stake_lock", "capacity_provider">>

\* the fold has taken every candidate of the batch without an error
FoldDone == bpc = "fold" /\ cell_idx > Len(stake_cells)

\* the non-stale candidates of a staker, in input order
CandidatesOf(staker) ==
    LET Taken(c) == c.staker = staker /\ ~IsStale(c, BuilderEpoch)
    IN SelectSeq(stake_cells, Taken)

\* a leaf after one delta: an increase adds, a decrease up to the leaf
\* subtracts, a decrease above the leaf leaves it (None: no leaf yet)
DeltaApplied(leaf, c) ==
    IF leaf = None THEN c.amount
    ELSE IF c.is_increase THEN leaf + c.amount
    ELSE IF c.amount > leaf THEN leaf
    ELSE leaf - c.amount

RECURSIVE AppliedInOrder(_, _)
AppliedInOrder(leaf, cells) ==
    IF cells = <<>> THEN leaf
    ELSE AppliedInOrder(DeltaApplied(leaf, Head(cells)), Tail(cells))

\* C31: Duplicate staker in a batch: when several non-stale candidate cells
\* belong to the same staker, the cell kept as that staker's stake-AT input is
\* the last one in input order, and the resulting new_smt[staker] is the
\* result of applying every one of the staker's deltas in input order.
C31_DuplicateStaker ==
    FoldDone =>
        \A s \in Stakers :
            LET cells == CandidatesOf(s)
            IN cells # <<>> =>
                 /\ s \in DOMAIN inputs_stake_cells
                 /\ inputs_stake_cells[s] = cells[Len(cells)]
                 /\ s \in DOMAIN new_smt
                 /\ new_smt[s] =
                      AppliedInOrder(IF s \in DOMAIN old_smt THEN old_smt[s]
                                     ELSE None, cells)

\* staker 1 with a leaf of 1 had two candidates, an increase of 2 and then a
\* decrease of 2: the second cell is kept and the leaf is 1 + 2 - 2 = 1 (in
\* the other order the decrease exceeds the leaf and the result is 3)
C31_Witness ==
    /\ FoldDone
    /\ Len(stake_cells) = 2
    /\ 1 \in DOMAIN old_smt
    /\ old_smt[1] = 1
    /\ stake_cells[1].is_increase /\ stake_cells[1].amount = 2
    /\ ~stake_cells[2].is_increase /\ stake_cells[2].amount = 2
    /\ stake_cells[2].staker = 1
    /\ ~IsStale(stake_cells[1], BuilderEpoch)
    /\ stake_cells[1].staker = 1
    /\ inputs_stake_cells[1].out_point = <<"candidate", 2>>
    /\ new_smt[1] = 1

(***************************************************************************)
(* Further claims about the synchroniser, checked under Spec.              *)
(***************************************************************************)

\* the row the step appends to transaction_history
NewRow == history'[Len(history')]

\* the step is the insert of the history row of handle_stake_tx
StakeRowStep == pc = "stake_row" /\ Len(history') = Len(history) + 1

\* the step is the insert of a history row of handle_delegate_tx
DelegateRowStep == pc = "delegate_row" /\ Len(history') = Len(history) + 1

\* the code of the event the claim names for a direction
EventOf(is_increase) ==
    IF is_increase THEN HistoryEventAdd ELSE HistoryEventRedeem

\* C32: Event code of a stake or delegate history row: an entry whose delta is
\* an increase is recorded with event Add (code 0) and one whose delta is a
\* decrease with event Redeem (code 1); the operation code is Stake (0) for
\* handle_stake_tx and Delegate (1) for handle_delegate_tx, and the row's
\* amount is new_total.
C32_EventCode ==
    [][ /\ StakeRowStep =>
             LET d == StakeCell.data.delta
                 original == SmtGetAmount(stake_smt, current_epoch,
                                          StakeCell.data.stake_addr)
             IN /\ NewRow.event = EventOf(d.is_increase)
                /\ NewRow.operation = OperationStake
                /\ ~Underflows(original, d) =>
                      NewRow.amount = NewAmount(original, d)
        /\ DelegateRowStep =>
             LET d == Delta(CurItem.is_increase, CurItem.amount)
                 original == SmtGetAmount(delegate_smt, current_epoch,
                                 DelegateLeaf(CurItem.staker,
                                              DelegateCell.data.delegator_addr))
             IN /\ NewRow.event = EventOf(d.is_increase)
                /\ NewRow.operation = OperationDelegate
                /\ ~Underflows(original, d) =>
                      NewRow.amount = NewAmount(original, d) ]_vars

\* the step is the successful return of handle_stake_tx
StakeReturnsOk == pc = "stake_build" /\ pc' \in {"dispatch", "loop"}

\* C33: StakeUpdate persists the staker's delta: after handle_stake_tx succeeds
\* for a staker, the KV stake column holds under the staker's address the
\* 17-byte encoding of the delta carried by that transaction, readable through
\* get_staker_status.
C33_StakerDeltaPersisted ==
    [][ StakeReturnsOk =>
          GetStakerStatus(kv_stake', StakeCell.data.stake_addr)
            = {DeltaEncode(StakeCell.data.delta)} ]_vars

\* a handler is about to compute original - amount with amount > original
UnderflowAhead ==
    \/ /\ pc = "dispatch"
       /\ Classify(CurTx) = "stake"
       /\ Underflows(SmtGetAmount(stake_smt, current_epoch,
                                  StakeCell.data.stake_addr),
                     StakeCell.data.delta)
    \/ /\ pc = "delegate_item"
       /\ item_idx <= Len(DelegateCell.data.delegator_infos)
       /\ Underflows(SmtGetAmount(delegate_smt, current_epoch,
                         DelegateLeaf(CurItem.staker,
                                      DelegateCell.data.delegator_addr)),
                     Delta(CurItem.is_increase, CurItem.amount))

\* C34: Underflow in the dispatcher is fatal and writes nothing: when a
\* StakeUpdate (or a DelegateUpdate entry) is a decrease whose amount exceeds
\* the current SMT leaf at current_epoch, the handler fails and the sync task
\* terminates without inserting a history row, without changing total_amount
\* and without changing the SMT; no wrapped or truncated amount is ever
\* recorded.
C34_UnderflowIsFatal ==
    [][ /\ UnderflowAhead =>
             /\ pc' \in {"failed", "down"}
             /\ history' = history
             /\ total_amount' = total_amount
             /\ stake_smt' = stake_smt
             /\ delegate_smt' = delegate_smt
        /\ \A i \in 1..Len(history') : history'[i].amount >= 0 ]_vars

\* the step is the KV write of handle_delegate_tx (lib.rs:253-255)
DelegateKvStep == pc = "delegate_item" /\ pc' = "delegate_build"

\* C35: DelegateUpdate persists merged deltas: after handle_delegate_tx
\* succeeds, the KV delegate entry of the delegator decodes to a DelegateDeltas
\* map that (a) keeps every entry previously stored for stakers not named in
\* the transaction, and (b) for every staker named in the transaction's
\* payload holds an entry whose delta reflects that payload entry's direction
\* and amount; one history row has been recorded per payload entry, and the KV
\* write happens after all of them.
C35_DelegateDeltasMerged ==
    [][ DelegateKvStep =>
          LET key == DelegateCell.data.delegator_addr
              infos == DelegateCell.data.delegator_infos
              named == { infos[i].staker : i \in 1..Len(infos) }
              old == IF key \in DOMAIN kv_delegate
                     THEN DelegateDeltasDecode(kv_delegate[key]).value
                     ELSE EmptyMap
              new == DelegateDeltasDecode(kv_delegate'[key])
          IN /\ new.ok
             /\ \A st \in DOMAIN old \ named :
                   st \in DOMAIN new.value /\ new.value[st] = old[st]
             /\ \A i \in 1..Len(infos) :
                   /\ infos[i].staker \in DOMAIN new.value
                   /\ new.value[infos[i].staker].delta
                        = Delta(infos[i].is_increase, infos[i].amount)
             /\ RowsOf(CurTx) >= Len(infos)
             /\ history' = history ]_vars

(***************************************************************************)
(* A further claim about the fold of StakeSmtTxBuilder, under SpecAgg.     *)
(***************************************************************************)

\* no decrease of the cells exceeds the leaf it meets when the deltas are
\* applied in order
RECURSIVE NoneExceeds(_, _)
NoneExceeds(leaf, cells) ==
    IF cells = <<>> THEN TRUE
    ELSE /\ Head(cells).is_increase \/ (leaf # None /\ Head(cells).amount <= leaf)
         /\ NoneExceeds(DeltaApplied(leaf, Head(cells)), Tail(cells))

RECURSIVE SumDecreases(_)
SumDecreases(cells) ==
    IF cells = <<>> THEN 0
    ELSE (IF Head(cells).is_increase THEN 0 ELSE Head(cells).amount)
           + SumDecreases(Tail(cells))

\* C36: Withdraw amount covers all decreases: for every staker that stays in
\* new_smt and none of whose decreases exceeds its current leaf,
\* withdraw_amounts[staker] after the fold equals the sum of the amounts of
\* all of that staker's non-stale decrease candidates in the batch, also when
\* the staker has more than one candidate.
C36_WithdrawCoversDecreases ==
    FoldDone =>
        \A s \in DOMAIN new_smt :
            LET cells == CandidatesOf(s)
                leaf == IF s \in DOMAIN old_smt THEN old_smt[s] ELSE None
            IN NoneExceeds(leaf, cells) =>
                 WithdrawOf(s) = SumDecreases(cells)

(***************************************************************************)
(* Further claims about the stores of the synchroniser, under Spec.        *)
(***************************************************************************)

\* the stake history rows of an address, oldest first
StakeRowsOf(address) ==
    LET Mine(r) == r.address = address /\ r.operation = OperationStake
    IN SelectSeq(history, Mine)

\* every row was written for an increase (the rows of increases carry the
\* event column BoolInto(TRUE)), so that no subtraction was involved
OnlyIncreases(rows) ==
    \A i \in 1..Len(rows) : rows[i].event = BoolInto(TRUE)

\* C37: Aggregate stake total matches the latest total: after the dispatcher
\* handles any sequence of StakeUpdate transactions for an address,
\* total_amount.stake_amount of that address equals the new_total recorded in
\* the address's most recent stake history row, not an accumulation of
\* earlier totals.  Stated for the runs without a restart and the addresses
\* whose StakeUpdates all increase.
C37_StakeTotalIsLatest ==
    (pc \in {"loop", "dispatch"} /\ restarts = 0) =>
        \A address \in DOMAIN total_amount :
            LET rows == StakeRowsOf(address)
            IN (rows # <<>> /\ OnlyIncreases(rows)) =>
                 total_amount[address].stake_amount = rows[Len(rows)].amount

(***************************************************************************)
(* A claim about the RPC server beside the sync task, under SpecRace.      *)
(***************************************************************************)

\* C38: a stake item built by the stake/unstake RPC while current_epoch = e
\* carries inauguration_epoch = e + 2, a run with current_epoch = e accepts
\* it and a run after a rollover skips it, so that under any interleaving a
\* candidate is never folded into a working set of an epoch other than its
\* own inauguration epoch.
C38_FoldedInOwnEpoch ==
    \A f \in rc_folded : f.item.inauguration_epoch = f.working

\* the part of C38 that holds: while the process has not been started again
\* every folded item went into the working set of its inauguration epoch
C38_FoldedInOwnEpochFirstRun ==
    rc_restarts = 0 => \A f \in rc_folded : f.item.inauguration_epoch = f.working

\* an item is folded in a run of the first start
C38_FirstRunFold ==
    rc_restarts = 0 /\ rc_folded # {}

(***************************************************************************)
(* Claims about the loop of run, under SpecLive and Spec.                  *)
(***************************************************************************)

\* a tip below the lag has been read and is about to be used
LowTipRead == pc = "tip_read" /\ TipMinusLagOverflows(tip)

\* C39: if the indexer tip grows without bound, every RPC call eventually
\* succeeds and no handler fails, then for every block number n at or above
\* the initial current_number the puller eventually hands block n to the
\* dispatcher: current_number eventually exceeds n.
C39_PullerProgress ==
    \A n \in START_NUMBER..(MaxBlocks - 1) : <>(current_number > n)

\* the part of C39 that holds: progress in the runs in which no tip below
\* the lag is read
C39_ProgressAboveLag ==
    ([]~LowTipRead) => \A n \in START_NUMBER..(MaxBlocks - 1) : <>(current_number > n)

\* C40: when the indexer tip T is less than 24, the computation T - 24 on
\* unsigned 64-bit integers does not wrap around or abort the sync task: the
\* puller fetches no block, sleeps, and polls again.
C40_LowTipSleeps ==
    [][ LowTipRead =>
          /\ pc' = "loop"
          /\ current_number' = current_number
          /\ handed' = handed ]_vars

====
